---- MODULE Spec2Model ----
(***************************************************************************)
(* The asynchronous transcription pipeline of m4a-to-notes:                *)
(*   - the Record Store (TranscriptionsService, transcriptions table),     *)
(*   - the Creation API (TranscriptionOrchestrator.createTranscription     *)
(*     and the POST /api/jobs handler handleCreateJob),                    *)
(*   - the Orchestrator (TranscriptionOrchestrator.processTranscription),  *)
(*   - the Queue Consumer (TranscriptionQueueConsumer and                  *)
(*     handleQueueMessage) on an at-least-once queue.                      *)
(* Every await of the code is a step of its own, so that two consumers     *)
(* working on the same record interleave exactly where the code suspends.  *)
(***************************************************************************)
EXTENDS Integers, Sequences, FiniteSets, TLC

(***************************************************************************)
(* Bounds of the model.                                                    *)
(***************************************************************************)
\* Total number of message deliveries the queue makes (first deliveries,
\* duplicates and redeliveries together).
MaxDeliveries == 2
\* Total number of environment faults (a store write that throws, a bucket
\* read or delete that throws, a capability call that throws, a queue send
\* that throws, a notification that throws, a worker that is killed).
MaxFaults == 1

\* The transcription ids.  Every store operation, every message and every
\* object key is keyed by one id, and no operation reads or writes across
\* ids, so the pipeline is followed for one job.
Ids == {1}
\* Two queue consumer invocations may be in flight at the same time.
Consumers == {"c1", "c2"}

\* A nullable column or local: Null, or Some(v) holding v.
Null == <<>>
Some(v) == <<v>>
Val(o) == o[1]
NoRecord == [absent |-> TRUE]

(***************************************************************************)
(* Values of the data model.                                               *)
(***************************************************************************)
TranscriptionStatus ==
    [PENDING |-> "pending", PROCESSING |-> "processing",
     COMPLETED |-> "completed", FAILED |-> "failed"]

Terminal == {TranscriptionStatus.COMPLETED, TranscriptionStatus.FAILED}

\* Texts the transcription capability returns: characters are "a" (speech)
\* and " " (white space).  The text is a property of the audio, so the
\* capability returns the same text every time it succeeds on one object.
SpeechTexts == {<<"a", "b">>, <<" ">>}

\* String.prototype.trim() leaves nothing exactly when every character is
\* white space.
\* A check for speech that lets every text through.
IsBlank_Never(t) == FALSE

IsBlank(t) == \A i \in 1..Len(t) : t[i] = " "

PreviewLen == 150

\* Recordings with more speech: texts of exactly 150, of 151 and of 153
\* characters.
Chars(n) == [i \in 1..n |-> "a"]
LongTexts == {Chars(PreviewLen), Chars(PreviewLen + 1), Chars(PreviewLen + 3)}

\* A preview that adds the ellipsis from 150 characters on.
Preview_EllipsisFrom150(t) ==
    IF Len(t) >= PreviewLen
    THEN SubSeq(t, 1, PreviewLen) \o <<".", ".", ".">>
    ELSE t

\* transcriptText.substring(0, 150) + (transcriptText.length > 150 ? '...' : '')
Preview(t) ==
    IF Len(t) > PreviewLen
    THEN SubSeq(t, 1, PreviewLen) \o <<".", ".", ".">>
    ELSE t

(***************************************************************************)
(* Error messages, and the substrings the orchestrator's classification    *)
(* looks for in them.                                                      *)
(***************************************************************************)
ErrNoSpeech == "No speech detected in audio"
ErrBucket == "Network connection lost"
ErrTranscribeConn == "Failed to transcribe audio: Connection error."
ErrTranscribeKey == "Failed to transcribe audio: Incorrect API key provided"
ErrDb == "SQLITE_BUSY: database is locked"
ErrQueue == "Queue send failed"
ErrTelegram == "Telegram API error"

TranscribeErrors == {ErrTranscribeConn, ErrTranscribeKey}

\* `Failed to transcribe audio: ${errorMessage}` for messages of the
\* capability in which one or several of the substrings occur.
ErrUpOpenAI == "Failed to transcribe audio: OpenAI service unavailable"
ErrUpFileSize == "Failed to transcribe audio: File size exceeds the limit"
ErrUpTooLarge == "Failed to transcribe audio: 413 Request too large"
ErrUpSpeech == "Failed to transcribe audio: No speech detected"
ErrUpSpeechApi == "Failed to transcribe audio: No speech detected by the API"
ErrUpSpeechLarge ==
    "Failed to transcribe audio: File too large. No speech detected"
ErrUpAll ==
    "Failed to transcribe audio: OpenAI API: File size too large. No speech detected"

UpstreamErrors ==
    TranscribeErrors \cup
    {ErrUpOpenAI, ErrUpFileSize, ErrUpTooLarge, ErrUpSpeech, ErrUpSpeechApi,
     ErrUpSpeechLarge, ErrUpAll}

(***************************************************************************)
(* Creation requests: the size of the audio, its declared content type and *)
(* the file name the client sends.                                         *)
(***************************************************************************)
MaxUploadBytes == 25 * 1024 * 1024

FileSizes == {MaxUploadBytes, MaxUploadBytes + 1}
ContentTypes == {"audio/m4a", "text/plain"}
FileNames == {"a.m4a", "too large.m4a", "notes.txt"}
Requests == [bytes : FileSizes, contentType : ContentTypes, fileName : FileNames]

\* An M4A file of the largest size allowed.
PlainRequest ==
    [bytes |-> MaxUploadBytes, contentType |-> "audio/m4a", fileName |-> "a.m4a"]

\* Requests to handleCreateJob that name an object the client never
\* uploaded: there is no audio whose size or type could differ.
NamedOnly ==
    {r \in Requests : /\ r.bytes = PlainRequest.bytes
                      /\ r.contentType = PlainRequest.contentType}

\* Whether the object a request to handleCreateJob names is in the bucket.
Uploaded(req) == IF req \in NamedOnly THEN BOOLEAN ELSE {TRUE}

\* validTypes of handleUploadAndProcess
ValidTypes == {"audio/m4a", "audio/mp4", "audio/x-m4a"}

\* fileName.toLowerCase().endsWith('.m4a')
EndsWithM4a(fileName) == fileName \in {"a.m4a", "too large.m4a"}

\* `audio/${crypto.randomUUID()}-${params.filename}`: the file name goes
\* into the key as the client sent it.
AudioKey(fileName) ==
    CASE fileName = "a.m4a" -> "audio/uuid-a.m4a"
      [] fileName = "too large.m4a" -> "audio/uuid-too large.m4a"
      [] fileName = "notes.txt" -> "audio/uuid-notes.txt"

AudioKeys == {AudioKey(f) : f \in FileNames}

\* `Object not found: ${objectKey}`
ObjectNotFound(objectKey) ==
    CASE objectKey = "audio/uuid-a.m4a" -> "Object not found: audio/uuid-a.m4a"
      [] objectKey = "audio/uuid-too large.m4a"
           -> "Object not found: audio/uuid-too large.m4a"
      [] objectKey = "audio/uuid-notes.txt"
           -> "Object not found: audio/uuid-notes.txt"

ErrObjectNotFound == ObjectNotFound(AudioKey(PlainRequest.fileName))
NotFoundErrors == {ObjectNotFound(k) : k \in AudioKeys}
DownloadErrors == NotFoundErrors \cup {ErrBucket}

Markers == {"OpenAI", "API", "No speech detected", "File size", "too large"}

\* The markers that occur as substrings of each message.
MarkersOf(msg) ==
    CASE msg = ErrNoSpeech -> {"No speech detected"}
      [] msg = ErrTranscribeKey -> {"API"}
      [] msg = ErrUpOpenAI -> {"OpenAI"}
      [] msg = ErrUpFileSize -> {"File size"}
      [] msg = ErrUpTooLarge -> {"too large"}
      [] msg = ErrUpSpeech -> {"No speech detected"}
      [] msg = ErrUpSpeechApi -> {"No speech detected", "API"}
      [] msg = ErrUpSpeechLarge -> {"too large", "No speech detected"}
      [] msg = ErrUpAll -> Markers
      [] msg = ObjectNotFound(AudioKey("too large.m4a")) -> {"too large"}
      [] OTHER -> {}

\* errorMessage.includes(sub)
Includes(msg, sub) == sub \in MarkersOf(msg)

\* A classification that looks for the missing speech first.
ErrorCode_SpeechFirst(msg) ==
    IF Includes(msg, "No speech detected") THEN "NO_SPEECH_DETECTED"
    ELSE IF Includes(msg, "OpenAI") \/ Includes(msg, "API")
         THEN "OPENAI_API_ERROR"
    ELSE IF Includes(msg, "File size") \/ Includes(msg, "too large")
         THEN "FILE_SIZE_ERROR"
    ELSE "TRANSCRIPTION_ERROR"

ErrorCode(msg) ==
    IF Includes(msg, "OpenAI") \/ Includes(msg, "API") THEN "OPENAI_API_ERROR"
    ELSE IF Includes(msg, "No speech detected") THEN "NO_SPEECH_DETECTED"
    ELSE IF Includes(msg, "File size") \/ Includes(msg, "too large")
         THEN "FILE_SIZE_ERROR"
    ELSE "TRANSCRIPTION_ERROR"

(***************************************************************************)
(* Queue messages.                                                         *)
(***************************************************************************)
EventTypes == {"transcription.requested"}

\* new Date().toISOString() at the time of the send
Now == "2025-01-01T00:00:00.000Z"
Timestamps == {Now}

Messages ==
    [eventType : EventTypes, transcriptionId : Ids, timestamp : Timestamps]

\* The body createTranscription and handleCreateJob hand to queue.send.
RequestedMessage(id) ==
    [eventType |-> "transcription.requested", transcriptionId |-> id,
     timestamp |-> Now]

\* Bodies another producer can put on the queue: an event type the consumer
\* does not know, and no transcriptionId (NoId).
ForeignEventTypes == {"subscription.created"}
NoId == 0
QueueMessages(ids) ==
    [eventType : EventTypes \cup ForeignEventTypes,
     transcriptionId : ids \cup {NoId},
     timestamp : Timestamps]

VARIABLES
    store,          \* Record Store: id -> record, or NoRecord
    audio,          \* Object Storage: id -> the object at the job's audioKey exists
    speech,         \* id -> the text the capability hears in the job's audio
    queueBound,     \* env.QUEUE is configured
    queue,          \* message -> copies the queue holds for delivery
    deliveries,     \* deliveries made so far
    faults,         \* environment faults so far
    created,        \* id -> how the Creation API request for it ended
    request,        \* id -> the Creation API request that took the id
    pc,             \* consumer -> position in its handler
    msg,            \* consumer -> the messages of its batch not yet finished,
                    \*             the one it is handling first
    handled,        \* consumer -> the messages of its batch it has finished
    loaded,         \* consumer -> record read by processTranscriptionEvent
    seen,           \* consumer -> status read by processTranscription
    text,           \* consumer -> transcriptText local of processTranscription
    err,            \* consumer -> message of the exception in flight
    failPersisted,  \* consumer -> its markFailed write succeeded
    calls,          \* id -> calls of the transcription capability
    runs,           \* id -> invocations that went past the idempotency check
    resultNotes,    \* id -> result notifications attempted
    errorNotes,     \* id -> error notifications attempted
    statusWriter,   \* id -> who wrote the record's status last
    \* StorageService.downloadContent, followed read by read:
    s3Fallback,     \* credentials for the direct S3 API are configured
    attempt,        \* consumer -> loop variable of downloadContent
    reads,          \* consumer -> bucket.get calls of its downloadContent
    hits,           \* consumer -> those of them that returned the object
    \* The earlier queue handler, which settles each message itself:
    variant,        \* which of its two versions is deployed
    firstAttempt,   \* message.attempts of a first delivery
    tries,          \* message -> deliveries made so far
    place,          \* message -> where the transport holds it
    settled,        \* message -> ack()/retry() calls during its last delivery
    delays,         \* message -> delaySeconds of every retry() requested for it
    lbatch,         \* the batch the handler is working on
    lpos,           \* position of the for loop in it
    lpc             \* position of the handler

vars == <<store, audio, speech, queueBound, queue, deliveries, faults, created,
          request,
          pc, msg, handled, loaded, seen, text, err, failPersisted, calls,
          runs,
          resultNotes, errorNotes, statusWriter, s3Fallback, attempt, reads,
          hits, variant, firstAttempt, tries,
          place, settled, delays, lbatch, lpos, lpc>>

legacyVars ==
    <<variant, firstAttempt, tries, place, settled, delays, lbatch, lpos, lpc>>

downloadVars == <<s3Fallback, attempt, reads, hits>>

envVars == <<audio, speech, queueBound, request, legacyVars, downloadVars>>
history == <<calls, runs, resultNotes, errorNotes>>

IsRecord(r) == r # NoRecord

CanFault == faults < MaxFaults

(***************************************************************************)
(* Record Store (TranscriptionsService).                                   *)
(***************************************************************************)
\* create(): the inserted row.
NewRecord(chat, audioKey) ==
    [status |-> TranscriptionStatus.PENDING,
     progress |-> 0,
     transcriptText |-> Null,
     preview |-> Null,
     errorDetails |-> Null,
     audioKey |-> audioKey,
     telegramChatId |-> chat]

\* db.update(transcriptions).set(updates): only the named columns change.
Merge(rec, updates) ==
    [k \in DOMAIN rec |-> IF k \in DOMAIN updates THEN updates[k] ELSE rec[k]]

\* `Transcription not found: ${transcriptionId}`
TranscriptionNotFound(id) ==
    CASE id = 1 -> "Transcription not found: 1"
      [] id = 2 -> "Transcription not found: 2"

\* An update that does not look for the row first: the UPDATE statement
\* matches no row and nothing is thrown.
Found_Unchecked(id) == TRUE

\* update() reads the row with findById and throws when there is none.
Found(id) == IsRecord(store[id])

\* An update that writes status processing only over status pending (a
\* compare-and-set) and leaves the row alone otherwise.
Update_OnlyFromPending(id, updates) ==
    IF /\ "status" \in DOMAIN updates
       /\ updates.status = "processing"
       /\ store[id].status # "pending"
    THEN store
    ELSE [store EXCEPT ![id] = Merge(@, updates)]

\* An update without its WHERE clause: the columns are set in every row.
Update_AllRows(id, updates) ==
    [j \in DOMAIN store |->
        IF IsRecord(store[j]) THEN Merge(store[j], updates) ELSE store[j]]

\* update(): the store after a partial update of row id.
Update(id, updates) == [store EXCEPT ![id] = Merge(@, updates)]

MarkStartedFields(progress) ==
    [status |-> TranscriptionStatus.PROCESSING, progress |-> progress]

\* markCompleted that leaves the progress where updateProgress(90) put it.
MarkCompletedFields_KeepsProgress(preview, transcriptText) ==
    [status |-> TranscriptionStatus.COMPLETED,
     preview |-> Some(preview),
     transcriptText |-> Some(transcriptText)]

MarkCompletedFields(preview, transcriptText) ==
    [status |-> TranscriptionStatus.COMPLETED,
     progress |-> 100,
     preview |-> Some(preview),
     transcriptText |-> Some(transcriptText)]

\* markFailed that sets the status and forgets the error details.
MarkFailedFields_StatusOnly(errorCode, errorMessage) ==
    [status |-> TranscriptionStatus.FAILED]

MarkFailedFields(errorCode, errorMessage) ==
    [status |-> TranscriptionStatus.FAILED,
     errorDetails |-> Some([code |-> errorCode, message |-> errorMessage])]

UpdateProgressFields(progress) == [progress |-> progress]


(***************************************************************************)
(* Initial state: an empty store, an empty bucket and an empty queue; the  *)
(* worker is deployed with or without a QUEUE binding.                     *)
(***************************************************************************)
NotRequested == "none"

\* The pipeline before any request, for the jobs ids.
PipelineInit(ids) ==
    /\ store = [id \in ids |-> NoRecord]
    /\ audio = [id \in ids |-> FALSE]
    /\ speech = [id \in ids |-> <<>>]
    /\ queue = [m \in QueueMessages(ids) |-> 0]
    /\ deliveries = 0
    /\ faults = 0
    /\ created = [id \in ids |-> NotRequested]
    /\ request = [id \in ids |-> Null]
    /\ pc = [c \in Consumers |-> "idle"]
    /\ msg = [c \in Consumers |-> Null]
    /\ handled = [c \in Consumers |-> <<>>]
    /\ loaded = [c \in Consumers |-> Null]
    /\ seen = [c \in Consumers |-> Null]
    /\ text = [c \in Consumers |-> Null]
    /\ err = [c \in Consumers |-> Null]
    /\ failPersisted = [c \in Consumers |-> FALSE]
    /\ calls = [id \in ids |-> 0]
    /\ runs = [id \in ids |-> 0]
    /\ resultNotes = [id \in ids |-> 0]
    /\ errorNotes = [id \in ids |-> 0]
    /\ statusWriter = [id \in ids |-> "none"]

\* Messages of the earlier queue handler.
LegacyJobs == {"j1", "j2"}

\* The earlier queue handler with nothing delivered yet.
LegacyIdle ==
    /\ tries = [m \in LegacyJobs |-> 0]
    /\ place = [m \in LegacyJobs |-> "queued"]
    /\ settled = [m \in LegacyJobs |-> <<>>]
    /\ delays = [m \in LegacyJobs |-> <<>>]
    /\ lbatch = <<>>
    /\ lpos = 0
    /\ lpc = "idle"

\* The deployed worker exports the handler of queueConsumer.ts; the earlier
\* handler is not part of it.
LegacyOff ==
    /\ variant = "none"
    /\ firstAttempt = 1
    /\ LegacyIdle

\* No call of downloadContent is followed read by read.
DownloadIdle ==
    /\ attempt = [c \in Consumers |-> 0]
    /\ reads = [c \in Consumers |-> 0]
    /\ hits = [c \in Consumers |-> 0]

\* The worker is deployed without credentials for the direct S3 API.
DownloadOff ==
    /\ s3Fallback = FALSE
    /\ DownloadIdle

Init ==
    /\ PipelineInit(Ids)
    /\ queueBound \in BOOLEAN
    /\ LegacyOff
    /\ DownloadOff

\* The next transcription id: ids are fresh UUIDs, numbered here in the
\* order of the requests.
FreshId(id) ==
    /\ created[id] = NotRequested
    /\ \A j \in Ids : j < id => created[j] # NotRequested

consumerVars == <<pc, msg, handled, loaded, seen, text, err, failPersisted>>

(***************************************************************************)
(* Creation API.  No message for the id exists before queue.send returns,  *)
(* so nothing else can touch the record while the request runs: each       *)
(* request is one step.                                                    *)
(***************************************************************************)
\* What the request does once the row is inserted, by the way the enqueue
\* ends.  marksFailed tells whether the path handles a failed send by
\* markFailed(QUEUE_ERROR).
AfterInsert(id, chat, audioKey, marksFailed) ==
    LET inserted == [store EXCEPT ![id] = NewRecord(chat, audioKey)]
        failedRec == Merge(NewRecord(chat, audioKey),
                        MarkFailedFields("QUEUE_ERROR",
                            "Failed to enqueue transcription for processing"))
    IN
    \/ \* no QUEUE binding: the record is created but not enqueued
       /\ ~queueBound
       /\ store' = inserted
       /\ statusWriter' = [statusWriter EXCEPT ![id] = "creation"]
       /\ created' = [created EXCEPT ![id] = "notEnqueued"]
       /\ UNCHANGED <<queue, faults>>
    \/ \* queue.send succeeds
       /\ queueBound
       /\ store' = inserted
       /\ statusWriter' = [statusWriter EXCEPT ![id] = "creation"]
       /\ queue' = [queue EXCEPT ![RequestedMessage(id)] = @ + 1]
       /\ created' = [created EXCEPT ![id] = "enqueued"]
       /\ UNCHANGED faults
    \/ \* queue.send throws
       /\ queueBound
       /\ CanFault
       /\ statusWriter' = [statusWriter EXCEPT ![id] = "creation"]
       /\ UNCHANGED queue
       /\ IF marksFailed
          THEN \/ \* markFailed is written
                  /\ store' = [store EXCEPT ![id] = failedRec]
                  /\ faults' = faults + 1
                  /\ created' = [created EXCEPT ![id] = "sendFailed"]
               \/ \* markFailed throws as well
                  /\ faults + 1 < MaxFaults
                  /\ store' = inserted
                  /\ faults' = faults + 2
                  /\ created' = [created EXCEPT ![id] = "sendFailed"]
          ELSE /\ store' = inserted
               /\ faults' = faults + 1
               /\ created' = [created EXCEPT ![id] = "sendFailed"]

\* The request is answered by an error before anything is stored.
Reject(id) ==
    /\ created' = [created EXCEPT ![id] = "rejected"]
    /\ UNCHANGED <<store, audio, speech, queue, faults, statusWriter>>

\* A creation path that sends the message before it inserts the row: the
\* message is on the queue when the insert throws.
InsertThrew_AfterSend(id) ==
    /\ created' = [created EXCEPT ![id] = "insertFailed"]
    /\ queue' = [queue EXCEPT ![RequestedMessage(id)] = @ + 1]
    /\ UNCHANGED <<store, statusWriter>>

\* The insert throws: create() re-throws, the request ends before its
\* queue.send, and nothing is created.
InsertThrew(id) ==
    /\ created' = [created EXCEPT ![id] = "insertFailed"]
    /\ UNCHANGED <<store, queue, statusWriter>>

\* The request passed the checks of its path: the audio is in the bucket
\* (uploaded), the row is inserted and the message is sent.  texts are the
\* texts the capability can hear in the audio.
AcceptWith(id, req, uploaded, marksFailed, texts) ==
    \E chat \in {Null, Some("chat")}, t \in texts :
        /\ audio' = [audio EXCEPT ![id] = uploaded]
        /\ speech' = [speech EXCEPT ![id] = IF uploaded THEN t ELSE <<>>]
        /\ \/ /\ CanFault
              /\ faults' = faults + 1
              /\ InsertThrew(id)
           \/ AfterInsert(id, chat, AudioKey(req.fileName), marksFailed)

Accept(id, req, uploaded, marksFailed) ==
    AcceptWith(id, req, uploaded, marksFailed, SpeechTexts)

\* A Creation API request req takes the id; the rest of the state is not
\* touched by the creation paths.
Takes(id, req) ==
    /\ FreshId(id)
    /\ request' = [request EXCEPT ![id] = Some(req)]
    /\ UNCHANGED <<queueBound, legacyVars, downloadVars, deliveries,
                   consumerVars, history>>

\* TranscriptionOrchestrator.createTranscription: check the size, upload
\* the audio, insert the row, enqueue; a failed enqueue is answered by
\* markFailed.
CreateTranscriptionRequest(id, req) ==
    /\ Takes(id, req)
    /\ IF req.bytes > MaxUploadBytes
       THEN Reject(id)
       ELSE Accept(id, req, TRUE, TRUE)

\* TranscriptionBusinessServiceImpl.createTranscription:
\* validateBusinessRules, then the orchestrator.
Business_CreateTranscription(id, req) ==
    IF req.bytes > MaxUploadBytes \/ ~EndsWithM4a(req.fileName)
    THEN Takes(id, req) /\ Reject(id)
    ELSE CreateTranscriptionRequest(id, req)

\* handleUploadAndProcess (POST /api/upload-and-process): 400 for a file
\* above the limit, 400 for a file that has neither a valid type nor the
\* .m4a extension, then createTranscription.
HandleUploadAndProcess(id, req) ==
    IF req.bytes > MaxUploadBytes
    THEN Takes(id, req) /\ Reject(id)
    ELSE IF req.contentType \notin ValidTypes /\ ~EndsWithM4a(req.fileName)
    THEN Takes(id, req) /\ Reject(id)
    ELSE CreateTranscriptionRequest(id, req)

\* handleCreateJob (POST /api/jobs): the client names the object it says it
\* has uploaded through a presigned URL; the handler checks that objectKey
\* and fileName are present, inserts the row and enqueues; a failed enqueue
\* is re-thrown to the handler's catch, which answers 500.
HandleCreateJobRequest(id, req, uploaded) ==
    /\ Takes(id, req)
    /\ Accept(id, req, uploaded, FALSE)

\* The two paths for an M4A file within the limit that is in the bucket.
CreateTranscription(id) == CreateTranscriptionRequest(id, PlainRequest)

HandleCreateJob(id) == HandleCreateJobRequest(id, PlainRequest, TRUE)

(***************************************************************************)
(* The queue: at-least-once delivery.                                      *)
(***************************************************************************)
\* A check of the message that looks at the transcriptionId only.
ValidMessage_IdOnly(m) == m.transcriptionId # NoId

\* processTranscriptionEvent's checks of the message, made before its first
\* await.
ValidMessage(m) ==
    /\ m.transcriptionId # NoId
    /\ m.eventType = "transcription.requested"

\* env.TELEGRAM_BOT_TOKEN is configured.
TelegramBotToken == TRUE

\* Consumer invocations are interchangeable: a delivery starts the first
\* one that is free.
ConsumerOrder == <<"c1", "c2">>
FirstIdle(c) ==
    \E i \in 1..Len(ConsumerOrder) :
        /\ ConsumerOrder[i] = c
        /\ \A j \in 1..(i - 1) : pc[ConsumerOrder[j]] # "idle"

\* The queue hands a copy of message m to an idle consumer invocation.  With
\* duplicate = TRUE the queue keeps its copy and will deliver it again.
Hand(c, m) ==
    /\ pc[c] = "idle"
    /\ FirstIdle(c)
    /\ queue[m] > 0
    /\ \E duplicate \in BOOLEAN :
         queue' = [queue EXCEPT ![m] = IF duplicate THEN @ ELSE @ - 1]
    /\ deliveries' = deliveries + 1
    /\ pc' = [pc EXCEPT ![c] = IF ValidMessage(m) THEN "E_findById" ELSE "raised"]
    /\ msg' = [msg EXCEPT ![c] = Some(m)]
    /\ UNCHANGED <<store, envVars, faults, created, handled, loaded, seen, text,
                   err, failPersisted, history, statusWriter>>

\* A delivery, as long as the transport has deliveries left.
Deliver(c, m) ==
    /\ deliveries < MaxDeliveries
    /\ Hand(c, m)

(***************************************************************************)
(* Queue Consumer: TranscriptionQueueConsumer.processTranscriptionEvent,   *)
(* up to its call of the orchestrator.                                     *)
(***************************************************************************)
JobOf(c) == Val(msg[c]).transcriptionId

GoTo(c, label) == pc' = [pc EXCEPT ![c] = label]

\* An exception with message m is thrown inside a try block whose catch
\* starts at label.
Throw(c, m, label) ==
    /\ pc' = [pc EXCEPT ![c] = label]
    /\ err' = [err EXCEPT ![c] = Some(m)]

\* What processTranscriptionEvent keeps of the record it reads first: the
\* routing metadata, and the status and the error code the record had at
\* that time.
Loaded(rec) ==
    [status |-> rec.status,
     telegramChatId |-> rec.telegramChatId,
     errorCode |-> IF rec.errorDetails = Null THEN Null
                   ELSE Some(Val(rec.errorDetails).code)]

\* A findById made inside the try block: a missing record goes through the
\* catch and its error notification.
Event_FindById_InsideTry(c) ==
    /\ pc[c] = "E_findById"
    /\ LET id == JobOf(c) IN
       IF IsRecord(store[id])
       THEN /\ loaded' = [loaded EXCEPT ![c] = Some(Loaded(store[id]))]
            /\ GoTo(c, "P_findById")
            /\ UNCHANGED <<err, errorNotes>>
       ELSE /\ Throw(c, "Transcription not found in database", "raised")
            /\ errorNotes' = [errorNotes EXCEPT ![id] = @ + 1]
            /\ UNCHANGED loaded
    /\ UNCHANGED <<store, envVars, queue, deliveries, faults, created, msg, handled,
                   seen, text, failPersisted, calls, runs, resultNotes,
                   statusWriter>>

\* findById before the try block: a missing record is thrown to
\* handleQueueMessage without any notification.
Event_FindById(c) ==
    /\ pc[c] = "E_findById"
    /\ LET id == JobOf(c) IN
       IF IsRecord(store[id])
       THEN /\ loaded' = [loaded EXCEPT ![c] = Some(Loaded(store[id]))]
            /\ GoTo(c, "P_findById")
            /\ UNCHANGED err
       ELSE /\ Throw(c, "Transcription not found in database", "raised")
            /\ UNCHANGED loaded
    /\ UNCHANGED <<store, envVars, queue, deliveries, faults, created, msg, handled,
                   seen, text, failPersisted, history, statusWriter>>

(***************************************************************************)
(* Orchestrator: TranscriptionOrchestrator.processTranscription.           *)
(***************************************************************************)
\* An idempotency check that lets failed records through.
SkipsProcessing_CompletedOnly(status) ==
    status = TranscriptionStatus.COMPLETED

\* The idempotency check: these statuses return without processing.
SkipsProcessing(status) ==
    \/ status = TranscriptionStatus.COMPLETED
    \/ status = TranscriptionStatus.FAILED

\* A check that treats a record left in processing as unexpected.
StartsProcessing_PendingOnly(status) ==
    status = TranscriptionStatus.PENDING

\* Statuses that go on to the try block.
StartsProcessing(status) ==
    \/ status = TranscriptionStatus.PROCESSING
    \/ status = TranscriptionStatus.PENDING

Process_FindById(c) ==
    /\ pc[c] = "P_findById"
    /\ LET id == JobOf(c) IN
       IF ~IsRecord(store[id])
       THEN /\ Throw(c, "Transcription not found", "E_catch")
            /\ UNCHANGED <<runs, seen>>
       ELSE /\ seen' = [seen EXCEPT ![c] = Some(store[id].status)]
            /\ IF SkipsProcessing(store[id].status)
               THEN /\ GoTo(c, "E_reload")
                    /\ UNCHANGED <<err, runs>>
               ELSE IF StartsProcessing(store[id].status)
               THEN /\ GoTo(c, "P_markStarted")
                    /\ runs' = [runs EXCEPT ![id] = @ + 1]
                    /\ UNCHANGED err
               ELSE /\ Throw(c, "Transcription is in unexpected status", "E_catch")
                    /\ UNCHANGED runs
    /\ UNCHANGED <<store, envVars, queue, deliveries, faults, created, msg, handled,
                   loaded, text, failPersisted, calls, resultNotes, errorNotes,
                   statusWriter>>

\* One store write of the try block: TranscriptionsService.update either
\* writes the columns and the run goes on at next, or throws into the catch.
TryWrite(c, updates, writesStatus, next) ==
    LET id == JobOf(c) IN
    \/ /\ Found(id)
       /\ store' = Update(id, updates)
       /\ statusWriter' = IF writesStatus
                          THEN [statusWriter EXCEPT ![id] = c]
                          ELSE statusWriter
       /\ GoTo(c, next)
       /\ UNCHANGED <<err, faults>>
    \/ /\ ~Found(id)
       /\ Throw(c, TranscriptionNotFound(id), "P_markFailed")
       /\ UNCHANGED <<store, statusWriter, faults>>
    \/ /\ CanFault
       /\ faults' = faults + 1
       /\ Throw(c, ErrDb, "P_markFailed")
       /\ UNCHANGED <<store, statusWriter>>

Process_MarkStarted(c) ==
    /\ pc[c] = "P_markStarted"
    /\ TryWrite(c, MarkStartedFields(5), TRUE, "P_download")
    /\ UNCHANGED <<envVars, queue, deliveries, created, msg, handled, loaded, seen, text,
                   failPersisted, history>>

\* transcription.audioKey of the row processTranscription read first: the
\* key the Creation API made for the request.
AudioKeyOf(id) == AudioKey(Val(request[id]).fileName)

\* StorageService.downloadContent: the bytes when the object is found, an
\* exception when the bucket throws or the object is not there.
Process_Download(c) ==
    /\ pc[c] = "P_download"
    /\ LET id == JobOf(c) IN
       \/ /\ audio[id]
          /\ GoTo(c, "P_progress20")
          /\ UNCHANGED <<err, faults>>
       \/ /\ audio[id]
          /\ CanFault
          /\ faults' = faults + 1
          /\ Throw(c, ErrBucket, "P_markFailed")
       \/ /\ ~audio[id]
          /\ Throw(c, ObjectNotFound(AudioKeyOf(id)), "P_markFailed")
          /\ UNCHANGED faults
    /\ UNCHANGED <<store, envVars, queue, deliveries, created, msg, handled, loaded, seen,
                   text, failPersisted, history, statusWriter>>

Process_Progress20(c) ==
    /\ pc[c] = "P_progress20"
    /\ TryWrite(c, UpdateProgressFields(20), FALSE, "P_transcribe")
    /\ UNCHANGED <<envVars, queue, deliveries, created, msg, handled, loaded, seen, text,
                   failPersisted, history>>

\* transcribeAudio, and the check of its result for speech.
Process_Transcribe(c) ==
    /\ pc[c] = "P_transcribe"
    /\ LET id == JobOf(c) IN
       /\ calls' = [calls EXCEPT ![id] = @ + 1]
       /\ \/ /\ text' = [text EXCEPT ![c] = Some(speech[id])]
             /\ IF IsBlank(speech[id])
                THEN Throw(c, ErrNoSpeech, "P_markFailed")
                ELSE GoTo(c, "P_progress90") /\ UNCHANGED err
             /\ UNCHANGED faults
          \/ /\ CanFault
             /\ faults' = faults + 1
             /\ \E m \in TranscribeErrors : Throw(c, m, "P_markFailed")
             /\ UNCHANGED text
    /\ UNCHANGED <<store, envVars, queue, deliveries, created, msg, handled, loaded, seen,
                   failPersisted, runs, resultNotes, errorNotes, statusWriter>>

Process_Progress90(c) ==
    /\ pc[c] = "P_progress90"
    /\ TryWrite(c, UpdateProgressFields(90), FALSE, "P_markCompleted")
    /\ UNCHANGED <<envVars, queue, deliveries, created, msg, handled, loaded, seen, text,
                   failPersisted, history>>

Process_MarkCompleted(c) ==
    /\ pc[c] = "P_markCompleted"
    /\ TryWrite(c, MarkCompletedFields(Preview(Val(text[c])), Val(text[c])),
                TRUE, "P_cleanup")
    /\ UNCHANGED <<envVars, queue, deliveries, created, msg, handled, loaded, seen, text,
                   failPersisted, history>>

\* A cleanup whose failed delete is routed to the catch block of
\* processTranscription.
BestEffortDelete_Rethrows(c, next) ==
    LET id == JobOf(c) IN
    \/ /\ audio' = [audio EXCEPT ![id] = FALSE]
       /\ UNCHANGED faults
       /\ GoTo(c, next)
    \/ /\ CanFault
       /\ faults' = faults + 1
       /\ UNCHANGED audio
       /\ GoTo(c, "P_markFailed")

\* storageService.deleteObject inside its own try/catch: the object is
\* deleted, or the failure is logged; the run goes on at next either way.
BestEffortDelete(c, next) ==
    LET id == JobOf(c) IN
    /\ \/ /\ audio' = [audio EXCEPT ![id] = FALSE]
          /\ UNCHANGED faults
       \/ /\ CanFault
          /\ faults' = faults + 1
          /\ UNCHANGED audio
    /\ GoTo(c, next)

Process_Cleanup(c) ==
    /\ pc[c] = "P_cleanup"
    /\ BestEffortDelete(c, "E_reload")
    /\ UNCHANGED <<store, speech, queueBound, request, legacyVars, downloadVars, queue, deliveries, created, msg, handled,
                   loaded, seen, text, err, failPersisted, history, statusWriter>>

\* A catch block that cleans up although markFailed threw.
MarkFailedThrew_StillCleansUp(c) == GoTo(c, "P_failCleanup")

\* markFailed threw: the cleanup stands in the same try block after it and
\* is skipped; the catch of that block only logs, then comes throw error.
MarkFailedThrew(c) == GoTo(c, "P_throw")

\* The catch block: classify the message, markFailed; when markFailed
\* throws (the store fails, or the row is not there), the failure is logged
\* and the cleanup is skipped.
Process_MarkFailed(c) ==
    /\ pc[c] = "P_markFailed"
    /\ LET id == JobOf(c)
           errorMessage == Val(err[c])
       IN
       \/ /\ Found(id)
          /\ store' = Update(id, MarkFailedFields(ErrorCode(errorMessage),
                                                  errorMessage))
          /\ statusWriter' = [statusWriter EXCEPT ![id] = c]
          /\ failPersisted' = [failPersisted EXCEPT ![c] = TRUE]
          /\ GoTo(c, "P_failCleanup")
          /\ UNCHANGED faults
       \/ /\ ~Found(id)
          /\ MarkFailedThrew(c)
          /\ UNCHANGED <<store, statusWriter, failPersisted, faults>>
       \/ /\ CanFault
          /\ faults' = faults + 1
          /\ MarkFailedThrew(c)
          /\ UNCHANGED <<store, statusWriter, failPersisted>>
    /\ UNCHANGED <<envVars, queue, deliveries, created, msg, handled, loaded, seen, text, err,
                   history>>

Process_FailCleanup(c) ==
    /\ pc[c] = "P_failCleanup"
    /\ BestEffortDelete(c, "P_throw")
    /\ UNCHANGED <<store, speech, queueBound, request, legacyVars, downloadVars, queue, deliveries, created, msg, handled,
                   loaded, seen, text, err, failPersisted, history, statusWriter>>

\* throw error: the original exception reaches processTranscriptionEvent.
Process_Rethrow(c) ==
    /\ pc[c] = "P_throw"
    /\ GoTo(c, "E_catch")
    /\ UNCHANGED <<store, envVars, queue, deliveries, faults, created, msg, handled,
                   loaded, seen, text, err, failPersisted, history, statusWriter>>


(***************************************************************************)
(* Queue Consumer: processTranscriptionEvent after the orchestrator call.  *)
(***************************************************************************)
\* A consumer that never notifies.
NotifiesTelegram_Never(c) == FALSE

\* telegramChatId && this.env.TELEGRAM_BOT_TOKEN
NotifiesTelegram(c) == Val(loaded[c]).telegramChatId # Null /\ TelegramBotToken

\* Checks of the re-loaded record that forget the failed status.
ReloadError_IgnoresFailed(rec) ==
    IF ~IsRecord(rec)
    THEN Some("Transcription record not found after processing")
    ELSE IF rec.status \notin {"completed", "failed"}
    THEN Some("Transcription in unexpected status")
    ELSE Null

\* The checks of the re-loaded record: the message of the error they throw,
\* or Null when the record passes them.
ReloadError(rec) ==
    IF ~IsRecord(rec)
    THEN Some("Transcription record not found after processing")
    ELSE IF rec.status = "failed"
    THEN Some("Transcription failed")
    ELSE IF rec.status # "completed"
    THEN Some("Transcription in unexpected status")
    ELSE IF rec.transcriptText = Null \/ rec.transcriptText = Some(<<>>)
    THEN Some("Transcription marked completed but transcript text is missing")
    ELSE Null

\* The record is read again; anything but a completed record with its
\* transcript text is thrown into the catch block.
Event_Reload(c) ==
    /\ pc[c] = "E_reload"
    /\ LET rec == store[JobOf(c)] IN
       IF ReloadError(rec) # Null
       THEN Throw(c, Val(ReloadError(rec)), "E_catch")
       ELSE /\ GoTo(c, IF NotifiesTelegram(c) THEN "E_sendResult" ELSE "returned")
            /\ UNCHANGED err
    /\ UNCHANGED <<store, envVars, queue, deliveries, faults, created, msg, handled,
                   loaded, seen, text, failPersisted, history, statusWriter>>

\* Notification helpers that let the exception of a failed send escape.
NotificationThrows_Rethrown(sendThrew) == sendThrew

\* sendTranscriptionToTelegram and sendErrorToTelegram wrap the send in
\* try/catch and only log: whether the send threw or not, the helper does
\* not throw to its caller.
NotificationThrows(sendThrew) == FALSE

\* One call of a notification helper from a place that goes on at next:
\* the send succeeds or throws.
Notify(c, next) ==
    \E sendThrew \in BOOLEAN :
        /\ sendThrew => CanFault
        /\ faults' = IF sendThrew THEN faults + 1 ELSE faults
        /\ IF NotificationThrows(sendThrew)
           THEN Throw(c, ErrTelegram, IF next = "returned" THEN "E_catch" ELSE next)
           ELSE GoTo(c, next) /\ UNCHANGED err

\* sendTranscriptionToTelegram: a failed send is logged, never thrown.
Event_SendResult(c) ==
    /\ pc[c] = "E_sendResult"
    /\ resultNotes' = [resultNotes EXCEPT ![JobOf(c)] = @ + 1]
    /\ Notify(c, "returned")
    /\ UNCHANGED <<store, envVars, queue, deliveries, created, msg, handled, loaded, seen,
                   text, failPersisted, calls, runs, errorNotes,
                   statusWriter>>

\* The catch block of processTranscriptionEvent: the error notification, if
\* the record names a chat (a failed send is logged), then throw error.
Event_Catch(c) ==
    /\ pc[c] = "E_catch"
    /\ IF NotifiesTelegram(c)
       THEN /\ errorNotes' = [errorNotes EXCEPT ![JobOf(c)] = @ + 1]
            /\ Notify(c, "raised")
       ELSE /\ GoTo(c, "raised")
            /\ UNCHANGED <<errorNotes, faults, err>>
    /\ UNCHANGED <<store, envVars, queue, deliveries, created, msg, handled, loaded, seen,
                   text, failPersisted, calls, runs, resultNotes,
                   statusWriter>>

(***************************************************************************)
(* handleQueueMessage and the transport.                                   *)
(***************************************************************************)
\* The locals of processTranscriptionEvent and processTranscription end
\* with the call.
ResetLocals(c) ==
    /\ loaded' = [loaded EXCEPT ![c] = Null]
    /\ seen' = [seen EXCEPT ![c] = Null]
    /\ text' = [text EXCEPT ![c] = Null]
    /\ err' = [err EXCEPT ![c] = Null]
    /\ failPersisted' = [failPersisted EXCEPT ![c] = FALSE]

\* The invocation of the queue handler is over.
EndInvocation(c) ==
    /\ pc' = [pc EXCEPT ![c] = "idle"]
    /\ msg' = [msg EXCEPT ![c] = Null]
    /\ handled' = [handled EXCEPT ![c] = <<>>]
    /\ ResetLocals(c)

\* How often message m occurs in the sequence ms.
Copies(ms, m) == Cardinality({i \in 1..Len(ms) : ms[i] = m})

\* A transport that forgets the messages of an invocation that raised.
Requeue_Drops(q, ms) == q

\* The transport puts the messages ms back for redelivery.
Requeue(q, ms) == [m \in DOMAIN q |-> q[m] + Copies(ms, m)]

\* processTranscriptionEvent returned: the for loop of handleQueueMessage
\* goes on with the next message of the batch; after the last one the
\* handler returns and the batch is acknowledged.
Handle_Ack(c) ==
    /\ pc[c] = "returned"
    /\ IF Len(msg[c]) > 1
       THEN /\ pc' = [pc EXCEPT ![c] = IF ValidMessage(msg[c][2])
                                         THEN "E_findById" ELSE "raised"]
            /\ msg' = [msg EXCEPT ![c] = Tail(@)]
            /\ handled' = [handled EXCEPT ![c] = Append(@, Val(msg[c]))]
            /\ ResetLocals(c)
       ELSE EndInvocation(c)
    /\ UNCHANGED <<store, envVars, queue, deliveries, faults, created, history,
                   statusWriter>>

\* processTranscriptionEvent raised: handleQueueMessage re-throws out of
\* its loop, the messages after this one are not looked at, and the
\* transport puts the message and those after it back for redelivery.
Handle_Retry(c) ==
    /\ pc[c] = "raised"
    /\ queue' = Requeue(queue, msg[c])
    /\ EndInvocation(c)
    /\ UNCHANGED <<store, envVars, deliveries, faults, created, history,
                   statusWriter>>

\* The worker is killed in the middle of an invocation (time limit, deploy,
\* crash): nothing more is written and the unacknowledged messages are
\* delivered again.
Crash(c) ==
    /\ pc[c] \notin {"idle", "returned", "raised"}
    /\ CanFault
    /\ faults' = faults + 1
    /\ queue' = Requeue(queue, msg[c])
    /\ EndInvocation(c)
    /\ UNCHANGED <<store, envVars, deliveries, created, history, statusWriter>>

Next ==
    \/ \E id \in Ids : CreateTranscription(id)
    \/ \E id \in Ids : HandleCreateJob(id)
    \/ \E c \in Consumers, m \in Messages : Deliver(c, m)
    \/ \E c \in Consumers : Event_FindById(c)
    \/ \E c \in Consumers : Process_FindById(c)
    \/ \E c \in Consumers : Process_MarkStarted(c)
    \/ \E c \in Consumers : Process_Download(c)
    \/ \E c \in Consumers : Process_Progress20(c)
    \/ \E c \in Consumers : Process_Transcribe(c)
    \/ \E c \in Consumers : Process_Progress90(c)
    \/ \E c \in Consumers : Process_MarkCompleted(c)
    \/ \E c \in Consumers : Process_Cleanup(c)
    \/ \E c \in Consumers : Process_MarkFailed(c)
    \/ \E c \in Consumers : Process_FailCleanup(c)
    \/ \E c \in Consumers : Process_Rethrow(c)
    \/ \E c \in Consumers : Event_Reload(c)
    \/ \E c \in Consumers : Event_SendResult(c)
    \/ \E c \in Consumers : Event_Catch(c)
    \/ \E c \in Consumers : Handle_Ack(c)
    \/ \E c \in Consumers : Handle_Retry(c)
    \/ \E c \in Consumers : Crash(c)

Spec == Init /\ [][Next]_vars

(***************************************************************************)
(* Fair scheduling, for one invocation of the queue handler at a time: a   *)
(* message on the queue is delivered while the transport has deliveries    *)
(* left, and an invocation that is not killed takes its next step.         *)
(***************************************************************************)
\* One step of consumer invocation c: the handlers run to their return or
\* throw.
HandlerStep(c) ==
    \/ Event_FindById(c)
    \/ Process_FindById(c)
    \/ Process_MarkStarted(c)
    \/ Process_Download(c)
    \/ Process_Progress20(c)
    \/ Process_Transcribe(c)
    \/ Process_Progress90(c)
    \/ Process_MarkCompleted(c)
    \/ Process_Cleanup(c)
    \/ Process_MarkFailed(c)
    \/ Process_FailCleanup(c)
    \/ Process_Rethrow(c)
    \/ Event_Reload(c)
    \/ Event_SendResult(c)
    \/ Event_Catch(c)
    \/ Handle_Ack(c)
    \/ Handle_Retry(c)

FairNext ==
    \/ \E id \in Ids : CreateTranscription(id)
    \/ \E id \in Ids : HandleCreateJob(id)
    \/ \E m \in Messages : Deliver("c1", m)
    \/ HandlerStep("c1")
    \/ Crash("c1")

Fairness ==
    /\ WF_vars(\E m \in Messages : Deliver("c1", m))
    /\ WF_vars(HandlerStep("c1"))

FairSpec == Init /\ [][FairNext]_vars /\ Fairness

(***************************************************************************)
(* Stray messages.  The queue is shared: the Paddle webhook handler puts   *)
(* its events on it, and a row can be deleted while its message is still   *)
(* on the queue.  One invocation of the queue handler at a time.           *)
(***************************************************************************)
\* Bodies that are not the Creation API's.
ForeignMessages == QueueMessages(Ids) \ Messages

\* Another producer sends body m; one foreign message at a time is on the
\* queue.
ForeignSend(m) ==
    /\ queueBound
    /\ \A n \in ForeignMessages : queue[n] = 0
    /\ queue' = [queue EXCEPT ![m] = @ + 1]
    /\ UNCHANGED <<store, envVars, deliveries, faults, created, consumerVars,
                   history, statusWriter>>

\* TranscriptionsService.delete: the row is gone.  Followed here while no
\* invocation is between its reads of the row and its return.
DeleteRecord(id) ==
    /\ IsRecord(store[id])
    /\ \A c \in Consumers :
          pc[c] \in {"idle", "E_findById", "P_findById", "raised", "returned"}
    /\ store' = [store EXCEPT ![id] = NoRecord]
    /\ UNCHANGED <<envVars, queue, deliveries, faults, created, consumerVars,
                   history, statusWriter>>

\* TranscriptionsService.delete at any time, also in the middle of a run.
Delete(id) ==
    /\ IsRecord(store[id])
    /\ store' = [store EXCEPT ![id] = NoRecord]
    /\ UNCHANGED <<envVars, queue, deliveries, faults, created, consumerVars,
                   history, statusWriter>>

StrayNext ==
    \/ \E id \in Ids : CreateTranscription(id)
    \/ \E id \in Ids : HandleCreateJob(id)
    \/ \E m \in ForeignMessages : ForeignSend(m)
    \/ \E id \in Ids : DeleteRecord(id)
    \/ \E m \in QueueMessages(Ids) : Deliver("c1", m)
    \/ HandlerStep("c1")
    \/ Crash("c1")

StraySpec == Init /\ [][StrayNext]_vars

(***************************************************************************)
(* Error classification.  One invocation of the queue handler at a time,   *)
(* with a capability that fails with any of the upstream messages.         *)
(***************************************************************************)
\* transcribeAudio throws TranscriptionError with the message of the
\* upstream error.
Process_TranscribeRejected(c) ==
    /\ pc[c] = "P_transcribe"
    /\ CanFault
    /\ faults' = faults + 1
    /\ calls' = [calls EXCEPT ![JobOf(c)] = @ + 1]
    /\ \E m \in UpstreamErrors : Throw(c, m, "P_markFailed")
    /\ UNCHANGED <<store, envVars, queue, deliveries, created, msg, handled, loaded,
                   seen, text, failPersisted, runs, resultNotes, errorNotes,
                   statusWriter>>

ClassifyNext ==
    \/ \E id \in Ids : CreateTranscription(id)
    \/ \E id \in Ids : HandleCreateJob(id)
    \/ \E m \in Messages : Deliver("c1", m)
    \/ HandlerStep("c1")
    \/ Process_TranscribeRejected("c1")
    \/ Crash("c1")

ClassifySpec == Init /\ [][ClassifyNext]_vars

(***************************************************************************)
(* Long recordings.  One invocation of the queue handler at a time, for    *)
(* audio whose transcript is at, just above and above the length of the    *)
(* preview.                                                                *)
(***************************************************************************)
\* createTranscription for an M4A file within the limit that holds a long
\* recording.
CreateLongTranscription(id) ==
    /\ Takes(id, PlainRequest)
    /\ AcceptWith(id, PlainRequest, TRUE, TRUE, LongTexts)

LongNext ==
    \/ \E id \in Ids : CreateTranscription(id)
    \/ \E id \in Ids : CreateLongTranscription(id)
    \/ \E m \in Messages : Deliver("c1", m)
    \/ HandlerStep("c1")
    \/ Crash("c1")

LongSpec == Init /\ [][LongNext]_vars

(***************************************************************************)
(* Deleted rows.  One invocation of the queue handler at a time, and a row *)
(* that can be deleted at any point of its run.                            *)
(***************************************************************************)
DeletionNext ==
    \/ \E id \in Ids : CreateTranscription(id)
    \/ \E id \in Ids : HandleCreateJob(id)
    \/ \E id \in Ids : Delete(id)
    \/ \E m \in Messages : Deliver("c1", m)
    \/ HandlerStep("c1")
    \/ Crash("c1")

DeletionSpec == Init /\ [][DeletionNext]_vars

(***************************************************************************)
(* StorageService.downloadContent read by read: up to three reads through  *)
(* the bucket binding, which may miss an object that has just been written,*)
(* then one read through the direct S3 API if credentials are configured.  *)
(* One invocation of the queue handler at a time.                          *)
(***************************************************************************)
\* const maxAttempts = 3
MaxAttempts == 3

\* A loop that goes round once more.
LoopGoesOn_OnceMore(n) == n <= MaxAttempts

\* attempt < maxAttempts
LoopGoesOn(n) == n < MaxAttempts

DownloadInit ==
    /\ PipelineInit(Ids)
    /\ queueBound = TRUE
    /\ LegacyOff
    /\ s3Fallback \in BOOLEAN
    /\ DownloadIdle

downloadFrame ==
    <<store, audio, speech, queueBound, request, legacyVars, s3Fallback, queue,
      deliveries, created, msg, handled, loaded, seen, text, failPersisted,
      history, statusWriter>>

\* processTranscription calls downloadContent: let attempt = 0.
Download_Enter(c) ==
    /\ pc[c] = "P_download"
    /\ GoTo(c, "D_get")
    /\ attempt' = [attempt EXCEPT ![c] = 0]
    /\ reads' = [reads EXCEPT ![c] = 0]
    /\ hits' = [hits EXCEPT ![c] = 0]
    /\ UNCHANGED <<downloadFrame, faults, err>>

\* One round of the loop: bucket.get returns the object and its bytes are
\* returned, or it returns null (the object is not there, or not yet
\* visible through the binding) and the loop waits and goes on, or it
\* throws.
Download_Get(c) ==
    /\ pc[c] = "D_get"
    /\ LoopGoesOn(attempt[c])
    /\ reads' = [reads EXCEPT ![c] = @ + 1]
    /\ LET id == JobOf(c) IN
       \/ /\ audio[id]
          /\ hits' = [hits EXCEPT ![c] = @ + 1]
          /\ GoTo(c, "P_progress20")
          /\ UNCHANGED <<attempt, err, faults>>
       \/ /\ attempt' = [attempt EXCEPT ![c] = @ + 1]
          /\ GoTo(c, IF LoopGoesOn(attempt[c] + 1) THEN "D_get" ELSE "D_fallback")
          /\ UNCHANGED <<hits, err, faults>>
       \/ /\ CanFault
          /\ faults' = faults + 1
          /\ Throw(c, ErrBucket, "P_markFailed")
          /\ UNCHANGED <<attempt, hits>>
    /\ UNCHANGED downloadFrame

\* After the loop: with credentials, one signed GET whose answer is ok
\* (the bytes are returned) or not ok (Object not found), or which throws;
\* without credentials, Object not found.
Download_Fallback(c) ==
    /\ pc[c] = "D_fallback"
    /\ LET id == JobOf(c) IN
       IF s3Fallback
       THEN \/ /\ audio[id]
               /\ GoTo(c, "P_progress20")
               /\ UNCHANGED <<err, faults>>
            \/ /\ ~audio[id]
               /\ Throw(c, ObjectNotFound(AudioKeyOf(id)), "P_markFailed")
               /\ UNCHANGED faults
            \/ /\ CanFault
               /\ faults' = faults + 1
               /\ \E m \in {ErrBucket, ObjectNotFound(AudioKeyOf(id))} :
                     Throw(c, m, "P_markFailed")
       ELSE /\ Throw(c, ObjectNotFound(AudioKeyOf(id)), "P_markFailed")
            /\ UNCHANGED faults
    /\ UNCHANGED <<downloadFrame, attempt, reads, hits>>

\* A step of the call of downloadContent under way.
DownloadStep(c) ==
    \/ Download_Get(c)
    \/ Download_Fallback(c)

DownloadNext ==
    \/ \E id \in Ids : CreateTranscription(id)
    \/ \E m \in Messages : Deliver("c1", m)
    \/ Event_FindById("c1")
    \/ Process_FindById("c1")
    \/ Process_MarkStarted("c1")
    \/ Download_Enter("c1")
    \/ DownloadStep("c1")
    \/ Process_Progress20("c1")
    \/ Process_Transcribe("c1")
    \/ Process_Progress90("c1")
    \/ Process_MarkCompleted("c1")
    \/ Process_Cleanup("c1")
    \/ Process_MarkFailed("c1")
    \/ Process_FailCleanup("c1")
    \/ Process_Rethrow("c1")
    \/ Event_Reload("c1")
    \/ Event_SendResult("c1")
    \/ Event_Catch("c1")
    \/ Handle_Ack("c1")
    \/ Handle_Retry("c1")
    \/ Crash("c1")

DownloadSpec == DownloadInit /\ [][DownloadNext]_vars

\* A read that was started gets its answer, and the timer of the wait
\* between two reads fires.
DownloadFairSpec == DownloadSpec /\ WF_vars(DownloadStep("c1"))

(***************************************************************************)
(* Redelivery.  The same pipeline with a transport that makes one delivery *)
(* more: two invocations can be under way when the message is delivered    *)
(* again.                                                                  *)
(***************************************************************************)
Redeliver(c, m) ==
    /\ deliveries = MaxDeliveries
    /\ Hand(c, m)

RedeliveryNext ==
    \/ Next
    \/ \E c \in Consumers, m \in Messages : Redeliver(c, m)

RedeliverySpec == Init /\ [][RedeliveryNext]_vars

(***************************************************************************)
(* Every request a client can send to the entry points of the Creation    *)
(* API, and one handler invocation at a time for the jobs they create.     *)
(***************************************************************************)
RequestNext ==
    \/ \E id \in Ids, req \in Requests :
          \/ Business_CreateTranscription(id, req)
          \/ HandleUploadAndProcess(id, req)
          \/ \E uploaded \in Uploaded(req) :
                HandleCreateJobRequest(id, req, uploaded)
    \/ \E m \in Messages : Deliver("c1", m)
    \/ Event_FindById("c1")
    \/ Process_FindById("c1")
    \/ Process_MarkStarted("c1")
    \/ Process_Download("c1")
    \/ Process_Progress20("c1")
    \/ Process_Transcribe("c1")
    \/ Process_Progress90("c1")
    \/ Process_MarkCompleted("c1")
    \/ Process_Cleanup("c1")
    \/ Process_MarkFailed("c1")
    \/ Process_FailCleanup("c1")
    \/ Process_Rethrow("c1")
    \/ Event_Reload("c1")
    \/ Event_SendResult("c1")
    \/ Event_Catch("c1")
    \/ Handle_Ack("c1")
    \/ Handle_Retry("c1")
    \/ Crash("c1")

RequestSpec == Init /\ [][RequestNext]_vars

(***************************************************************************)
(* Batches.  The same pipeline with two jobs and one invocation of the     *)
(* queue handler at a time, which is handed batches of messages.           *)
(***************************************************************************)
BatchIds == {1, 2}
BatchMessages ==
    [eventType : EventTypes, transcriptionId : BatchIds, timestamp : Timestamps]

\* The batches the transport may hand over: distinct messages, in any order.
Batches ==
    {<<m>> : m \in BatchMessages}
        \cup {b \in BatchMessages \X BatchMessages : b[1] # b[2]}

BatchInit ==
    /\ PipelineInit(BatchIds)
    /\ queueBound = TRUE
    /\ LegacyOff
    /\ DownloadOff

\* The transport hands batch b to the queue handler: batch.messages.
DeliverBatch(c, b) ==
    /\ pc[c] = "idle"
    /\ \A i \in 1..Len(b) : queue[b[i]] > 0
    /\ deliveries < MaxDeliveries
    /\ \E duplicate \in BOOLEAN :
         queue' = [m \in DOMAIN queue |->
                     IF duplicate THEN queue[m] ELSE queue[m] - Copies(b, m)]
    /\ deliveries' = deliveries + 1
    /\ pc' = [pc EXCEPT ![c] =
                 IF ValidMessage(b[1]) THEN "E_findById" ELSE "raised"]
    /\ msg' = [msg EXCEPT ![c] = b]
    /\ UNCHANGED <<store, envVars, faults, created, handled, loaded, seen, text,
                   err, failPersisted, history, statusWriter>>

\* The invocation of the queue handler that is followed.
Handler == "c1"

BatchNext ==
    \/ \E id \in BatchIds : CreateTranscription(id)
    \/ \E b \in Batches : DeliverBatch(Handler, b)
    \/ Event_FindById(Handler)
    \/ Process_FindById(Handler)
    \/ Process_MarkStarted(Handler)
    \/ Process_Download(Handler)
    \/ Process_Progress20(Handler)
    \/ Process_Transcribe(Handler)
    \/ Process_Progress90(Handler)
    \/ Process_MarkCompleted(Handler)
    \/ Process_Cleanup(Handler)
    \/ Process_MarkFailed(Handler)
    \/ Process_FailCleanup(Handler)
    \/ Process_Rethrow(Handler)
    \/ Event_Reload(Handler)
    \/ Event_SendResult(Handler)
    \/ Event_Catch(Handler)
    \/ Handle_Ack(Handler)
    \/ Handle_Retry(Handler)
    \/ Crash(Handler)

BatchSpec == BatchInit /\ [][BatchNext]_vars


(***************************************************************************)
(* The earlier queue handler (services/queueConsumer.js), which settles    *)
(* every message of its batch itself with message.ack() and                *)
(* message.retry().  It exists in two versions; what processing a message  *)
(* does is left open here: it returns or it throws.                        *)
(***************************************************************************)
\* Deliveries the transport makes of one message.
MaxTries == 4

pipelineVars ==
    <<store, audio, speech, queueBound, queue, deliveries, faults, created,
      request, consumerVars, history, statusWriter, downloadVars>>

LegacyInit ==
    /\ PipelineInit(Ids)
    /\ queueBound = TRUE
    /\ variant \in {"withPaddle", "transcriptionOnly"}
    /\ firstAttempt \in {0, 1}
    /\ LegacyIdle
    /\ DownloadOff

LegacyBatches ==
    {<<m>> : m \in LegacyJobs}
        \cup {b \in LegacyJobs \X LegacyJobs : b[1] # b[2]}

\* message.attempts of the delivery of m in progress.
Attempts(m) == firstAttempt + tries[m] - 1

\* delaySeconds: Math.pow(2, message.attempts) * 30
RetryDelay(attempts) == (2 ^ attempts) * 30

\* const messageData is declared inside the try block, so the catch block
\* cannot see it: evaluating messageData?.x there throws a ReferenceError.
\* The version with the Paddle consumer does so in its first log call, the
\* other one only in the log call of its "max retries" branch.
CatchLogThrows(v) == v = "withPaddle"
MaxRetriesLogThrows(v) == TRUE

\* The transport hands a batch of queued messages to the handler.
Legacy_Deliver(b) ==
    /\ lpc = "idle"
    /\ \A i \in 1..Len(b) : place[b[i]] = "queued" /\ tries[b[i]] < MaxTries
    /\ tries' = [m \in LegacyJobs |->
                    IF Copies(b, m) > 0 THEN tries[m] + 1 ELSE tries[m]]
    /\ place' = [m \in LegacyJobs |->
                    IF Copies(b, m) > 0 THEN "delivered" ELSE place[m]]
    /\ settled' = [m \in LegacyJobs |->
                      IF Copies(b, m) > 0 THEN <<>> ELSE settled[m]]
    /\ lbatch' = b
    /\ lpos' = 1
    /\ lpc' = "try"
    /\ UNCHANGED <<variant, firstAttempt, delays, pipelineVars>>

\* The for loop goes on with the next message, or the handler returns.
LegacyAdvance ==
    IF lpos < Len(lbatch)
    THEN lpos' = lpos + 1 /\ lpc' = "try"
    ELSE lpos' = lpos /\ lpc' = "return"

\* The try block: the message is processed and acknowledged, or the
\* processing throws into the catch block.
Legacy_Process ==
    /\ lpc = "try"
    /\ \E ok \in BOOLEAN :
         IF ok
         THEN /\ settled' = [settled EXCEPT ![lbatch[lpos]] = Append(@, "ack")]
              /\ LegacyAdvance
         ELSE /\ lpc' = "catch"
              /\ UNCHANGED <<settled, lpos>>
    /\ UNCHANGED <<variant, firstAttempt, tries, place, delays, lbatch,
                   pipelineVars>>

\* The catch block: log, then retry with backoff while attempts < 3, else
\* log and acknowledge.
Legacy_Catch ==
    /\ lpc = "catch"
    /\ LET m == lbatch[lpos] IN
       IF CatchLogThrows(variant)
       THEN /\ lpc' = "threw"
            /\ UNCHANGED <<settled, delays, lpos>>
       ELSE IF Attempts(m) < 3
       THEN /\ settled' = [settled EXCEPT ![m] = Append(@, "retry")]
            /\ delays' = [delays EXCEPT ![m] = Append(@, RetryDelay(Attempts(m)))]
            /\ LegacyAdvance
       ELSE IF MaxRetriesLogThrows(variant)
       THEN /\ lpc' = "threw"
            /\ UNCHANGED <<settled, delays, lpos>>
       ELSE /\ settled' = [settled EXCEPT ![m] = Append(@, "ack")]
            /\ UNCHANGED delays
            /\ LegacyAdvance
    /\ UNCHANGED <<variant, firstAttempt, tries, place, lbatch, pipelineVars>>

\* Where the transport puts a message of the batch when the invocation
\* ends: the first explicit call decides; without one, the message is
\* acknowledged if the handler returned and redelivered if it threw, as
\* long as the transport has deliveries left for it.
PlaceAfter(m, threw) ==
    IF Copies(lbatch, m) = 0 THEN place[m]
    ELSE IF settled[m] # <<>>
    THEN (IF settled[m][1] = "ack" THEN "gone" ELSE "queued")
    ELSE IF ~threw THEN "gone"
    ELSE IF tries[m] < MaxTries THEN "queued"
    ELSE "dead"

\* The handler returns.
Legacy_Return ==
    /\ lpc = "return"
    /\ place' = [m \in LegacyJobs |-> PlaceAfter(m, FALSE)]
    /\ lbatch' = <<>>
    /\ lpos' = 0
    /\ lpc' = "idle"
    /\ UNCHANGED <<variant, firstAttempt, tries, settled, delays, pipelineVars>>

\* The exception leaves the handler.
Legacy_Throw ==
    /\ lpc = "threw"
    /\ place' = [m \in LegacyJobs |-> PlaceAfter(m, TRUE)]
    /\ lbatch' = <<>>
    /\ lpos' = 0
    /\ lpc' = "idle"
    /\ UNCHANGED <<variant, firstAttempt, tries, settled, delays, pipelineVars>>

LegacyNext ==
    \/ \E b \in LegacyBatches : Legacy_Deliver(b)
    \/ Legacy_Process
    \/ Legacy_Catch
    \/ Legacy_Return
    \/ Legacy_Throw

LegacySpec == LegacyInit /\ [][LegacyNext]_vars

(***************************************************************************)
(* Properties.                                                             *)
(***************************************************************************)
Rec(id) == store[id]
Stepped(c) == pc'[c] # pc[c]
\* The step is one of c's own handler (not the worker being killed).
Ran(c) == Stepped(c) /\ pc'[c] # "idle"

\* C1: once a record's status is completed or failed, no later store write
\* changes that status.
C1_TerminalStatusIsFinal ==
    [][\A id \in Ids :
         (IsRecord(Rec(id)) /\ Rec(id).status \in Terminal)
            => store'[id].status = Rec(id).status]_vars

\* C2: while the status is not terminal, every write leaves the progress of
\* the record where it was or raises it.
C2_ProgressNeverDecreases ==
    [][\A id \in Ids :
         (IsRecord(Rec(id)) /\ Rec(id).status \notin Terminal)
            => store'[id].progress >= Rec(id).progress]_vars

\* C3: in every reachable state a record has a transcript text exactly when
\* its status is completed.
C3_TranscriptTextIffCompleted ==
    \A id \in Ids :
        IsRecord(Rec(id))
            => (Rec(id).transcriptText # Null <=> Rec(id).status = "completed")

\* C4: in every reachable state a record has error details exactly when its
\* status is failed.
C4_ErrorDetailsIffFailed ==
    \A id \in Ids :
        IsRecord(Rec(id))
            => (Rec(id).errorDetails # Null <=> Rec(id).status = "failed")

\* C5: processTranscription invoked on a completed or failed record returns
\* normally to its caller and writes nothing to the store, reads and deletes
\* no object and does not call the capability; so the capability is called
\* no more often than invocations found the record unfinished, and exactly
\* once when one such invocation completed the record.
C5_SkipStep(c) ==
    (/\ pc[c] = "P_findById"
     /\ Ran(c)
     /\ IsRecord(Rec(JobOf(c)))
     /\ Rec(JobOf(c)).status \in Terminal)
        => /\ pc'[c] = "E_reload"
           /\ err'[c] = Null
           /\ UNCHANGED <<store, audio, calls, runs>>

C5_TerminalRecordIsNotReprocessed ==
    /\ [][\A c \in Consumers : C5_SkipStep(c)]_vars
    /\ [](\A id \in Ids :
            /\ calls[id] <= runs[id]
            /\ (IsRecord(Rec(id)) /\ Rec(id).status = "completed" /\ runs[id] = 1)
                  => calls[id] = 1)

\* A second delivery has found the record completed and has gone straight
\* from the idempotency check to the caller, after exactly one capability call.
C5_Witness ==
    \E c \in Consumers :
        /\ pc[c] = "E_reload"
        /\ seen[c] = Some("completed")
        /\ text[c] = Null
        /\ deliveries = 2
        /\ calls[JobOf(c)] = 1

\* C6: a delivery that finds the record already completed or failed sends no
\* result notification and no error notification.
C6_DuplicateDeliveryIsSilent ==
    [][\A c \in Consumers :
         (/\ loaded[c] # Null
          /\ Val(loaded[c]).status \in Terminal
          /\ Stepped(c))
            => UNCHANGED <<resultNotes, errorNotes>>]_vars

\* The record one uninterrupted run without faults leaves behind.
SingleRunData(id) ==
    IF IsBlank(speech[id])
    THEN [status |-> "failed",
          progress |-> 20,
          transcriptText |-> Null,
          preview |-> Null,
          errorDetails |-> Some([code |-> "NO_SPEECH_DETECTED",
                                 message |-> ErrNoSpeech])]
    ELSE [status |-> "completed",
          progress |-> 100,
          transcriptText |-> Some(speech[id]),
          preview |-> Some(Preview(speech[id])),
          errorDetails |-> Null]

TerminalData(rec) ==
    [status |-> rec.status,
     progress |-> rec.progress,
     transcriptText |-> rec.transcriptText,
     preview |-> rec.preview,
     errorDetails |-> rec.errorDetails]

\* processTranscription is over for c.
LeftOrchestrator(c) ==
    pc[c] \in {"E_reload", "E_sendResult", "E_catch", "returned", "raised"}

\* C7: when two consumers both read the job as pending and both run
\* processTranscription, and nothing in the environment fails, the record
\* ends with the data of a single uninterrupted run.
C7_ConcurrentRunsConverge ==
    (/\ faults = 0
     /\ \A c \in Consumers :
          /\ LeftOrchestrator(c)
          /\ seen[c] = Some("pending"))
        => \A c \in Consumers :
              TerminalData(Rec(JobOf(c))) = SingleRunData(JobOf(c))

C9_SendFailureMarksFailed ==
    \A id \in Ids :
        created[id] = "sendFailed"
            => IsRecord(Rec(id)) /\ Rec(id).status = "failed"

\* C10: after a download failure has been recorded for a job, a redelivered
\* message makes processTranscription run the processing steps again.
C10_DownloadFailureIsRetried ==
    [][\A c \in Consumers :
         (/\ pc[c] = "P_findById"
          /\ Ran(c)
          /\ IsRecord(Rec(JobOf(c)))
          /\ Rec(JobOf(c)).status = "failed"
          /\ Val(Rec(JobOf(c)).errorDetails).message \in DownloadErrors)
            => pc'[c] = "P_markStarted"]_vars

\* C11: processTranscriptionEvent returns normally only when the record it
\* re-loads after the orchestrator call is completed with its transcript
\* text; on any other re-loaded record it raises to handleQueueMessage.
C11_ReturnsOnlyIfCompleted ==
    [][\A c \in Consumers :
         /\ (pc[c] = "E_reload" /\ Ran(c))
               => IF /\ IsRecord(Rec(JobOf(c)))
                     /\ Rec(JobOf(c)).status = "completed"
                     /\ Rec(JobOf(c)).transcriptText \notin {Null, Some(<<>>)}
                  THEN pc'[c] \in {"E_sendResult", "returned"}
                  ELSE pc'[c] = "E_catch"
         /\ (pc[c] = "E_catch" /\ Ran(c)) => pc'[c] = "raised"
         /\ (pc'[c] = "E_sendResult" /\ Stepped(c)) => pc[c] = "E_reload"
         /\ (pc'[c] = "returned" /\ Stepped(c))
               => pc[c] \in {"E_reload", "E_sendResult"}]_vars

\* The re-loaded record was failed and the consumer is in its catch block,
\* on its way to raise.
C11_Witness ==
    \E c \in Consumers :
        /\ pc[c] = "E_catch"
        /\ err[c] = Some("Transcription failed")
        /\ Rec(JobOf(c)).status = "failed"

\* C12: a notification send, failing or not, leaves the outcome of the
\* message alone: after the result notification the consumer returns and
\* the store is as it was; after the error notification the consumer raises
\* the error it caught.
C12_NotificationNeverChangesOutcome ==
    [][\A c \in Consumers :
         /\ (pc[c] = "E_sendResult" /\ Ran(c))
               => pc'[c] = "returned" /\ err'[c] = err[c] /\ store' = store
         /\ (pc[c] = "E_catch" /\ Ran(c))
               => pc'[c] = "raised" /\ err'[c] = err[c] /\ store' = store]_vars

\* The only fault of the execution hit the result notification: the single
\* delivery ran without any other failure (the record is completed, the
\* audio is deleted), and the consumer has returned.
C12_Witness ==
    \E c \in Consumers :
        /\ pc[c] = "returned"
        /\ faults = 1
        /\ deliveries = 1
        /\ resultNotes[JobOf(c)] = 1
        /\ created[JobOf(c)] = "enqueued"
        /\ ~audio[JobOf(c)]
        /\ Rec(JobOf(c)).status = "completed"

\* C13: handleQueueMessage works through its batch in order, one message
\* at a time; when a message raises, the handler raises at once, the
\* transport gets that message back for redelivery, and the store is left as
\* it is: the records of the messages finished before stay completed.
C13_BatchIsSequentialWithoutRollback ==
    /\ [][\A c \in Consumers :
            /\ (pc[c] = "returned" /\ Stepped(c))
                  => IF Len(msg[c]) > 1
                     THEN /\ pc'[c] = "E_findById"
                          /\ msg'[c] = Tail(msg[c])
                          /\ handled'[c] = Append(handled[c], Val(msg[c]))
                     ELSE pc'[c] = "idle"
            /\ (pc[c] = "raised" /\ Stepped(c))
                  => /\ pc'[c] = "idle"
                     /\ queue'[Val(msg[c])] = queue[Val(msg[c])] + 1
                     /\ store' = store
            /\ (Stepped(c) /\ pc[c] \notin {"idle", "returned"} /\ pc'[c] # "idle")
                  => msg'[c] = msg[c] /\ handled'[c] = handled[c]
            /\ \A id \in DOMAIN store :
                  (store'[id] # store[id] /\ IsRecord(store[id]) /\ Stepped(c))
                     => id = JobOf(c)]_vars
    /\ [](\A c \in Consumers : \A i \in 1..Len(handled[c]) :
            Rec(handled[c][i].transcriptionId).status = "completed")

\* The second message of a batch has raised after the first one was
\* finished, and the first one's record is completed.
C13_Witness ==
    \E c \in Consumers :
        /\ pc[c] = "raised"
        /\ Len(handled[c]) = 1
        /\ Rec(handled[c][1].transcriptionId).status = "completed"
        /\ Rec(JobOf(c)).status = "failed"

\* C14: a message whose processing keeps failing is given back with delays
\* of 30, 60 and 120 seconds, in this order, and is then acknowledged by
\* the handler: the handler never lets the failure of a message escape, and
\* the delays it has requested for a message are the first ones of
\* 30, 60, 120.
C14_BackoffThenAck ==
    /\ lpc # "threw"
    /\ \A m \in LegacyJobs :
          /\ Len(delays[m]) <= 3
          /\ \A i \in 1..Len(delays[m]) : delays[m][i] = <<30, 60, 120>>[i]

\* C15: whenever an invocation of processTranscription is at its download
\* step, the audio object of its job is in the bucket.
C15_AudioPresentAtDownload ==
    \A c \in Consumers :
        pc[c] = "P_download" => audio[JobOf(c)]

\* C16: a created job starts as {pending, progress 0, no transcript text,
\* no error details}; the markCompleted write of a run whose capability call
\* returned the non-blank text T makes the record {completed, progress 100,
\* transcriptText T, preview of T}, and that is the record the one run of a
\* job delivered once leaves behind.
C16_CreatedPendingThenCompleted ==
    /\ [][/\ \A id \in Ids :
               (/\ ~IsRecord(store[id])
                /\ IsRecord(store'[id])
                /\ created'[id] \in {"enqueued", "notEnqueued"})
                  => TerminalData(store'[id]) =
                        [status |-> "pending", progress |-> 0,
                         transcriptText |-> Null, preview |-> Null,
                         errorDetails |-> Null]
           /\ \A c \in Consumers :
               (pc[c] = "P_markCompleted" /\ pc'[c] = "P_cleanup")
                  => /\ ~IsBlank(Val(text[c]))
                     /\ store'[JobOf(c)].status = "completed"
                     /\ store'[JobOf(c)].progress = 100
                     /\ store'[JobOf(c)].transcriptText = text[c]
                     /\ store'[JobOf(c)].preview = Some(Preview(Val(text[c])))]_vars
    /\ [](\A c \in Consumers :
            (/\ deliveries = 1
             /\ pc[c] \in {"P_cleanup", "E_reload", "E_sendResult", "returned"}
             /\ text[c] # Null)
               => /\ Rec(JobOf(c)).status = "completed"
                  /\ Rec(JobOf(c)).progress = 100
                  /\ Rec(JobOf(c)).transcriptText = Some(speech[JobOf(c)])
                  /\ Rec(JobOf(c)).errorDetails = Null)

\* The only delivery of a job has run to its end and returned; the record is
\* completed at 100 with the text of the audio.
C16_Witness ==
    \E c \in Consumers :
        /\ pc[c] = "returned"
        /\ deliveries = 1
        /\ runs[JobOf(c)] = 1
        /\ Rec(JobOf(c)).status = "completed"
        /\ Rec(JobOf(c)).progress = 100
        /\ Rec(JobOf(c)).transcriptText = Some(<<"a", "b">>)

\* C17: a blank capability result is recorded as failed with code
\* NO_SPEECH_DETECTED and re-thrown, and the failure is final: a delivery
\* that finds NO_SPEECH_DETECTED recorded when it loads the record does not
\* call the capability.
C17_NoSpeechIsTerminal ==
    [][/\ \A c \in Consumers :
            (pc[c] = "P_markFailed" /\ pc'[c] = "P_failCleanup"
                /\ err[c] = Some(ErrNoSpeech))
               => /\ store'[JobOf(c)].status = "failed"
                  /\ Val(store'[JobOf(c)].errorDetails).code = "NO_SPEECH_DETECTED"
       /\ \A c \in Consumers :
            (pc[c] = "P_throw" /\ Ran(c)) => pc'[c] = "E_catch" /\ err'[c] = err[c]
       /\ \A c \in Consumers :
            (/\ loaded[c] # Null
             /\ Val(loaded[c]).errorCode = Some("NO_SPEECH_DETECTED")
             /\ Ran(c))
               => calls'[JobOf(c)] = calls[JobOf(c)]]_vars


\* C18: when the read of the audio object raises not-found and the
\* markFailed write goes through, the run that re-throws leaves the record
\* failed with an error code that is neither NO_SPEECH_DETECTED nor
\* FILE_SIZE_ERROR, and it has not called the transcription capability.
C18_NotFoundIsInfraFailure ==
    \A c \in Consumers :
        ( /\ pc[c] = "P_throw"
          /\ err[c] # Null
          /\ Val(err[c]) \in NotFoundErrors
          /\ failPersisted[c] )
            => LET rec == Rec(JobOf(c)) IN
               /\ rec.status = "failed"
               /\ rec.errorDetails # Null
               /\ Val(rec.errorDetails).code
                    \notin {"NO_SPEECH_DETECTED", "FILE_SIZE_ERROR"}
               /\ text[c] = Null

\* C19: a creation request whose audio is larger than the 25MB limit is
\* rejected before any effect: no record is created and no message is put
\* on the queue (the object of a request to handleCreateJob is in the bucket
\* before the request is made, so it is left out here).
C19_OversizeRejectedBeforeAnyEffect ==
    [][\A id \in Ids :
          ( /\ request[id] = Null
            /\ request'[id] # Null
            /\ Val(request'[id]).bytes > MaxUploadBytes )
              => /\ store'[id] = NoRecord
                 /\ queue' = queue]_vars

\* C20: a creation request whose content type is not an audio type and
\* whose file name has no supported extension creates no record and puts
\* no message on the queue, whichever entry point receives it.
C20_UnsupportedFileRejected ==
    [][\A id \in Ids :
          ( /\ request[id] = Null
            /\ request'[id] # Null
            /\ Val(request'[id]).contentType \notin ValidTypes
            /\ ~EndsWithM4a(Val(request'[id]).fileName) )
              => /\ store'[id] = NoRecord
                 /\ queue' = queue]_vars

\* The status changes the state diagram allows.
ForwardTransitions ==
    {<<"pending", "processing">>, <<"processing", "completed">>,
     <<"processing", "failed">>}

\* C21: every change of the status of a record is pending to processing,
\* processing to completed or processing to failed.
C21_StatusMovesForwardOnly ==
    [][\A id \in Ids :
         (IsRecord(Rec(id)) /\ store'[id].status # Rec(id).status)
            => <<Rec(id).status, store'[id].status>> \in ForwardTransitions]_vars

\* C22: every message on the queue carries the two fields eventType =
\* "transcription.requested" and transcriptionId and nothing else, and the
\* recipient a consumer works with is the one of the record it loaded.
C22_MessageIsPointerOnly ==
    /\ \A m \in DOMAIN queue :
          queue[m] > 0
            => /\ DOMAIN m = {"eventType", "transcriptionId"}
               /\ m.eventType = "transcription.requested"
    /\ \A c \in Consumers :
          loaded[c] # Null
            => Val(loaded[c]).telegramChatId = Rec(JobOf(c)).telegramChatId

\* The transport has made all the deliveries it makes and the last one is
\* over.
BudgetExhausted ==
    /\ deliveries = MaxDeliveries
    /\ \A c \in Consumers : pc[c] = "idle"

\* C23: under fair scheduling, every job whose message was enqueued
\* reaches status completed or failed, unless the deliveries of the
\* transport are used up first.
C23_EnqueuedJobReachesTerminal ==
    \A id \in Ids :
        (created[id] = "enqueued")
            ~> \/ IsRecord(Rec(id)) /\ Rec(id).status \in Terminal
               \/ BudgetExhausted

\* The first handling of a job raised with the record not terminal, and a
\* redelivery has brought the record to completed.
C23_Witness ==
    \E id \in Ids :
        /\ created[id] = "enqueued"
        /\ deliveries = 2
        /\ faults > 0
        /\ runs[id] = 2
        /\ statusWriter[id] = "c1"
        /\ \A c \in Consumers : pc[c] = "idle"
        /\ Rec(id).status = "completed"

\* Consumer c is at one of its two cleanups and its delete throws.
DeleteRaises(c, at) ==
    /\ pc[c] = at
    /\ Ran(c)
    /\ faults' = faults + 1

\* C24: a delete that throws after markCompleted changes no record and
\* processTranscription returns normally, the record being completed
\* unless another run wrote its status; a delete that throws after
\* markFailed changes no record and the exception that goes on is the
\* original one, the record being failed unless another run wrote its
\* status.
C24_DeleteFailureNeverFailsTheJob ==
    [][\A c \in Consumers :
         /\ DeleteRaises(c, "P_cleanup")
              => /\ store' = store
                 /\ pc'[c] = "E_reload"
                 /\ err'[c] = Null
                 /\ statusWriter[JobOf(c)] = c
                      => Rec(JobOf(c)).status = "completed"
         /\ DeleteRaises(c, "P_failCleanup")
              => /\ store' = store
                 /\ pc'[c] = "P_throw"
                 /\ err'[c] = err[c]
                 /\ err[c] # Null
                 /\ statusWriter[JobOf(c)] = c
                      => Rec(JobOf(c)).status = "failed"]_vars

\* A run has transcribed and completed its job, its delete threw (the
\* object is still there) and it has returned to processTranscriptionEvent.
C24_Witness ==
    \E c \in Consumers :
        /\ pc[c] = "E_reload"
        /\ text[c] # Null
        /\ faults > 0
        /\ audio[JobOf(c)]
        /\ Rec(JobOf(c)).status = "completed"

\* C25: nothing prevents a duplicate run: the markStarted write of a run
\* that has passed the idempotency check goes through whatever the status
\* of the record is by then, and leaves it processing with progress 5.
C25_NothingPreventsDuplicateRun ==
    [][\A c \in Consumers :
         (pc[c] = "P_markStarted" /\ pc'[c] = "P_download")
            => /\ store'[JobOf(c)].status = "processing"
               /\ store'[JobOf(c)].progress = 5]_vars

\* Two invocations for the same job have both read status pending, and the
\* transcription capability has been called twice for the job.
C25_Witness ==
    /\ pc["c1"] # "idle"
    /\ pc["c2"] # "idle"
    /\ JobOf("c1") = JobOf("c2")
    /\ seen["c1"] = Some("pending")
    /\ seen["c2"] = Some("pending")
    /\ calls[JobOf("c1")] = 2

\* C26: a run that finds the record in processing does not skip the job:
\* it goes on to markStarted and counts as a run, and when its steps get to
\* markCompleted that write leaves the record completed with progress 100
\* and the text this run obtained.
C26_ProcessingIsReprocessed ==
    [][\A c \in Consumers :
         /\ ( /\ pc[c] = "P_findById"
              /\ Ran(c)
              /\ IsRecord(Rec(JobOf(c)))
              /\ Rec(JobOf(c)).status = "processing" )
                => /\ pc'[c] = "P_markStarted"
                   /\ runs'[JobOf(c)] = runs[JobOf(c)] + 1
         /\ ( /\ seen[c] = Some("processing")
              /\ pc[c] = "P_markCompleted"
              /\ pc'[c] = "P_cleanup" )
                => /\ store'[JobOf(c)].status = "completed"
                   /\ store'[JobOf(c)].progress = 100
                   /\ store'[JobOf(c)].transcriptText = text[c]]_vars

\* An earlier attempt was killed after markStarted; the next delivery found
\* the record in processing, ran the steps again and completed the job.
C26_Witness ==
    \E c \in Consumers :
        /\ pc[c] = "P_cleanup"
        /\ seen[c] = Some("processing")
        /\ \A d \in Consumers \ {c} : pc[d] = "idle"
        /\ deliveries = 2
        /\ runs[JobOf(c)] = 2
        /\ calls[JobOf(c)] = 1
        /\ Rec(JobOf(c)).status = "completed"

\* The positions of a run of processTranscription that succeeds, in the
\* order of the source.
RunOrder ==
    <<"P_markStarted", "P_download", "P_progress20", "P_transcribe",
      "P_progress90", "P_markCompleted", "P_cleanup", "E_reload">>

\* The text holds something other than blanks.
HasSpeech(t) == \E i \in 1..Len(t) : t[i] # " "

\* What the i-th step of a successful run does.
RunEffect(c, i) ==
    LET id == JobOf(c) IN
    CASE i = 1 -> /\ store'[id].status = "processing"
                  /\ store'[id].progress = 5
      [] i = 2 -> audio[id] /\ store' = store /\ calls' = calls
      [] i = 3 -> store'[id].progress = 20 /\ calls' = calls
      [] i = 4 -> /\ calls'[id] = calls[id] + 1
                  /\ text'[c] # Null
                  /\ HasSpeech(Val(text'[c]))
                  /\ store' = store
      [] i = 5 -> store'[id].progress = 90 /\ calls' = calls
      [] i = 6 -> /\ store'[id].status = "completed"
                  /\ store'[id].progress = 100
                  /\ store'[id].transcriptText = text[c]
                  /\ HasSpeech(Val(text[c]))
                  /\ audio' = audio
      [] i = 7 -> /\ store' = store
                  /\ \/ audio' = [audio EXCEPT ![id] = FALSE]
                     \/ audio' = audio /\ faults' = faults + 1

\* C27: a step of a run that does not throw takes the run from one
\* position of the order to the next and has the effect of that position:
\* status processing with progress 5, the download, progress 20, the call
\* of the capability, progress 90, status completed with progress 100, the
\* attempt to delete the audio.  The capability is called only by a run
\* past its download, and a record is marked completed only by a run that
\* holds a text with speech.
C27_StepsInOrder ==
    [][/\ \A c \in Consumers : \A i \in 1..7 :
            (pc[c] = RunOrder[i] /\ Ran(c) /\ pc'[c] # "P_markFailed")
               => pc'[c] = RunOrder[i + 1] /\ RunEffect(c, i)
       /\ \A id \in Ids :
            /\ calls'[id] # calls[id]
                 => \E c \in Consumers :
                       pc[c] = "P_transcribe" /\ Stepped(c) /\ JobOf(c) = id
            /\ ( /\ IsRecord(Rec(id))
                 /\ Rec(id).status # "completed"
                 /\ store'[id].status = "completed" )
                 => \E c \in Consumers :
                       /\ pc[c] = "P_markCompleted"
                       /\ JobOf(c) = id
                       /\ text[c] # Null
                       /\ HasSpeech(Val(text[c]))]_vars

\* One run has gone through all its steps without a fault: the job is
\* completed, the capability was called once and the audio is deleted.
C27_Witness ==
    \E c \in Consumers :
        /\ pc[c] = "E_reload"
        /\ text[c] # Null
        /\ faults = 0
        /\ runs[JobOf(c)] = 1
        /\ calls[JobOf(c)] = 1
        /\ ~audio[JobOf(c)]
        /\ Rec(JobOf(c)).status = "completed"
        /\ Rec(JobOf(c)).progress = 100

\* The body names a transcription and has the event type of the Creation
\* API.
WellFormed(m) ==
    m.eventType = "transcription.requested" /\ m.transcriptionId # NoId

\* The message consumer c is handed in this step, or is done with in it.
MessageOf(c) == IF msg'[c] # Null THEN Val(msg'[c]) ELSE Val(msg[c])

\* C28: for a message with another event type or without transcriptionId
\* processTranscriptionEvent raises at once: the invocation reads no
\* record, never enters the orchestrator, sends no notification, and the
\* store and the bucket stay as they are.
C28_UnknownMessageRaisesAtOnce ==
    [][\A c \in Consumers :
         ( /\ Stepped(c)
           /\ msg[c] # Null \/ msg'[c] # Null
           /\ ~WellFormed(MessageOf(c)) )
            => /\ pc'[c] \in {"raised", "idle"}
               /\ loaded'[c] = Null
               /\ store' = store
               /\ audio' = audio
               /\ history' = history]_vars

\* An invocation has raised for a message with an unknown event type while
\* the record the message names is in the store, untouched.
C28_Witness ==
    \E c \in Consumers :
        /\ pc[c] = "raised"
        /\ Val(msg[c]).eventType \in ForeignEventTypes
        /\ Val(msg[c]).transcriptionId \in Ids
        /\ IsRecord(Rec(Val(msg[c]).transcriptionId))
        /\ Rec(Val(msg[c]).transcriptionId).status = "pending"
        /\ loaded[c] = Null

\* C29: processTranscription raises for an id without record, with no
\* write to the store, no read or delete of an object and no call of the
\* capability; processTranscriptionEvent raises for a message whose id has
\* no record without entering the orchestrator and without a notification.
C29_MissingRecordRaises ==
    [][\A c \in Consumers :
         /\ ( /\ pc[c] = "P_findById"
              /\ Ran(c)
              /\ ~IsRecord(Rec(JobOf(c))) )
                => /\ pc'[c] = "E_catch"
                   /\ err'[c] # Null
                   /\ store' = store
                   /\ audio' = audio
                   /\ calls' = calls
                   /\ runs' = runs
         /\ ( /\ pc[c] = "E_findById"
              /\ Ran(c)
              /\ ~IsRecord(Rec(JobOf(c))) )
                => /\ pc'[c] = "raised"
                   /\ err'[c] # Null
                   /\ loaded'[c] = Null
                   /\ store' = store
                   /\ audio' = audio
                   /\ history' = history]_vars

\* The row was deleted after processTranscriptionEvent read it, and
\* processTranscription has raised for the missing record.
C29_Witness ==
    \E c \in Consumers :
        /\ pc[c] = "E_catch"
        /\ err[c] = Some("Transcription not found")
        /\ ~IsRecord(Rec(JobOf(c)))
        /\ calls[JobOf(c)] = 0
        /\ runs[JobOf(c)] = 0

\* The code the order of the tests gives for a message in which the
\* substrings found occur.
CodeFor(found) ==
    IF "OpenAI" \in found \/ "API" \in found THEN "OPENAI_API_ERROR"
    ELSE IF "No speech detected" \in found THEN "NO_SPEECH_DETECTED"
    ELSE IF "File size" \in found \/ "too large" \in found
         THEN "FILE_SIZE_ERROR"
    ELSE "TRANSCRIPTION_ERROR"

\* C30: the error details a markFailed write of processTranscription
\* stores hold the message of the exception and one code, the one the
\* tests give in their order: "OpenAI" or "API", then "No speech
\* detected", then "File size" or "too large", then TRANSCRIPTION_ERROR.
C30_ErrorCodeFollowsTheOrder ==
    [][\A c \in Consumers :
         (pc[c] = "P_markFailed" /\ pc'[c] = "P_failCleanup")
            => LET stored == store'[JobOf(c)].errorDetails IN
               /\ stored # Null
               /\ Val(stored).message = Val(err[c])
               /\ Val(stored).code = CodeFor(MarkersOf(Val(err[c])))
               /\ Val(stored).code \in
                    {"OPENAI_API_ERROR", "NO_SPEECH_DETECTED",
                     "FILE_SIZE_ERROR", "TRANSCRIPTION_ERROR"}]_vars

\* A failure whose message names both the API and the missing speech is
\* stored as OPENAI_API_ERROR.
C30_Witness ==
    \E id \in Ids :
        /\ IsRecord(Rec(id))
        /\ Rec(id).status = "failed"
        /\ Rec(id).errorDetails =
             Some([code |-> "OPENAI_API_ERROR", message |-> ErrUpSpeechApi])

\* The first 150 characters of t and "..." when t is longer, t itself
\* otherwise.
Truncated(t) ==
    IF Len(t) <= 150
    THEN t
    ELSE [i \in 1..153 |-> IF i <= 150 THEN t[i] ELSE "."]

\* C31: the preview of a record is written by the markCompleted write of
\* a run and by no other step; that write stores the text T the capability
\* returned as transcriptText, status completed, and as preview T itself
\* when T has at most 150 characters and the first 150 characters of T
\* followed by "..." when T is longer.
C31_PreviewIsTruncatedText ==
    [][\A id \in Ids :
         LET writers == {c \in Consumers : /\ msg[c] # Null
                                            /\ JobOf(c) = id
                                            /\ pc[c] = "P_markCompleted"
                                            /\ pc'[c] = "P_cleanup"}
         IN
         IF writers # {}
         THEN \A c \in writers :
                 /\ store'[id].status = "completed"
                 /\ store'[id].transcriptText = text[c]
                 /\ store'[id].preview = Some(Truncated(Val(text[c])))
         ELSE IsRecord(Rec(id)) /\ IsRecord(store'[id])
                 => store'[id].preview = Rec(id).preview]_vars

\* A record completed with a transcript of 151 characters: its preview has
\* 153 characters and ends in "...".
C31_Witness ==
    \E id \in Ids :
        /\ IsRecord(Rec(id))
        /\ Rec(id).status = "completed"
        /\ Len(Val(Rec(id).transcriptText)) = 151
        /\ Len(Val(Rec(id).preview)) = 153
        /\ SubSeq(Val(Rec(id).preview), 151, 153) = <<".", ".", ".">>

\* The positions of a run at which its next step is a store update.
UpdateSteps ==
    {"P_markStarted", "P_progress20", "P_progress90", "P_markCompleted",
     "P_markFailed"}

\* C32: markStarted, updateProgress, markCompleted and markFailed called
\* for an id that has no row raise `Transcription not found` and leave the
\* store as it was (markStarted, updateProgress and markCompleted raise
\* into the catch block, the raise of markFailed is logged there and the
\* original error goes on); and no step but a creation request puts a row
\* where there was none.
C32_UpdateOfMissingRowRaises ==
    [][/\ \A c \in Consumers :
            (/\ pc[c] \in UpdateSteps
             /\ Ran(c)
             /\ ~IsRecord(Rec(JobOf(c)))
             /\ faults' = faults)
               => /\ store' = store
                  /\ IF pc[c] = "P_markFailed"
                     THEN /\ pc'[c] = "P_throw"
                          /\ err'[c] = err[c]
                          /\ ~failPersisted'[c]
                     ELSE /\ pc'[c] = "P_markFailed"
                          /\ err'[c] = Some("Transcription not found: 1")
       /\ \A id \in Ids :
            (~IsRecord(Rec(id)) /\ created' = created)
               => ~IsRecord(store'[id])]_vars

\* The row was deleted after the run had started: markCompleted has raised
\* not-found into the catch block, and the store has no row for the id.
C32_Witness ==
    \E c \in Consumers :
        /\ pc[c] = "P_markFailed"
        /\ text[c] # Null
        /\ err[c] = Some("Transcription not found: 1")
        /\ ~IsRecord(Rec(JobOf(c)))

\* The columns each helper names in its partial update, by the position
\* of the run that calls it.
Named(at) ==
    CASE at = "P_markStarted" -> {"status", "progress"}
      [] at \in {"P_progress20", "P_progress90"} -> {"progress"}
      [] at = "P_markCompleted" ->
            {"status", "progress", "preview", "transcriptText"}
      [] at = "P_markFailed" -> {"status", "errorDetails"}

\* C33: a store update a run makes for id X leaves every other row as it
\* was, and in row X it leaves every column it does not name as it was:
\* updateProgress changes nothing but progress, markStarted nothing but
\* status and progress, markCompleted nothing but status, progress, preview
\* and transcriptText, markFailed nothing but status and errorDetails.
C33_UpdateChangesNamedColumnsOnly ==
    [][\A c \in Consumers :
         (pc[c] \in UpdateSteps /\ Ran(c))
            => LET id == JobOf(c) IN
               /\ \A j \in DOMAIN store \ {id} : store'[j] = store[j]
               /\ IsRecord(Rec(id)) = IsRecord(store'[id])
               /\ IsRecord(Rec(id))
                     => \A k \in DOMAIN Rec(id) \ Named(pc[c]) :
                           store'[id][k] = Rec(id)[k]]_vars

\* One row has gone through markStarted, updateProgress(20) and markFailed
\* and still has progress 20, no text and no preview, while the other row
\* is as it was inserted.
C33_Witness ==
    \E i, j \in DOMAIN store :
        /\ i # j
        /\ IsRecord(Rec(i)) /\ IsRecord(Rec(j))
        /\ Rec(i).status = "failed"
        /\ Rec(i).errorDetails # Null
        /\ Rec(i).progress = 20
        /\ Rec(i).transcriptText = Null
        /\ Rec(i).preview = Null
        /\ Rec(j).status = "pending"
        /\ Rec(j).progress = 0
        /\ Rec(j).errorDetails = Null

\* c is inside downloadContent.
Downloading(c) == pc[c] \in {"D_get", "D_fallback"}

\* C34: a call of downloadContent makes at most 3 reads through the
\* bucket binding; the read that finds the object returns its bytes to
\* processTranscription, so no read follows a read that found it; Object
\* not found is thrown only after 3 reads of which none found the object,
\* from the place after the loop where the fallback read has not succeeded
\* or is not configured; and every call under way comes to an end, whatever
\* the bucket answers.
C34_DownloadReadsAtMostThrice ==
    /\ [](\A c \in Consumers : reads[c] <= 3 /\ hits[c] <= 1)
    /\ [][\A c \in Consumers :
            /\ hits'[c] > hits[c] => pc'[c] = "P_progress20"
            /\ (/\ Downloading(c)
                /\ pc'[c] = "P_markFailed"
                /\ err'[c] \in NotFoundErrors)
                  => /\ pc[c] = "D_fallback"
                     /\ reads[c] = 3
                     /\ hits[c] = 0]_vars
    /\ \A c \in Consumers : Downloading(c) ~> ~Downloading(c)

\* Object not found has been thrown after three reads that missed.
C34_Witness ==
    \E c \in Consumers :
        /\ pc[c] = "P_markFailed"
        /\ err[c] # Null
        /\ Val(err[c]) \in NotFoundErrors
        /\ reads[c] = 3
        /\ hits[c] = 0

\* C35: in every reachable state a record whose status is completed has
\* progress 100.
C35_CompletedHasFullProgress ==
    \A id \in Ids :
        (IsRecord(Rec(id)) /\ Rec(id).status = "completed")
            => Rec(id).progress = 100

\* C36: a run of processTranscription comes to a delete of the audio only
\* by a markCompleted or a markFailed write of its own that went through,
\* and the audio is deleted by no step but these deletes; when markFailed
\* raises, the run goes to throw error with the store and the audio as
\* they were, and the error it re-throws is the one that was caught.
C36_DeleteFollowsOwnTerminalWrite ==
    [][/\ \A c \in Consumers :
            (msg[c] # Null /\ Ran(c))
               => LET id == JobOf(c) IN
                  /\ pc'[c] = "P_cleanup"
                        => /\ pc[c] = "P_markCompleted"
                           /\ IsRecord(store'[id])
                           /\ store'[id].status = "completed"
                           /\ store'[id].transcriptText = text[c]
                  /\ pc'[c] = "P_failCleanup"
                        => /\ pc[c] = "P_markFailed"
                           /\ IsRecord(store'[id])
                           /\ store'[id].status = "failed"
                           /\ store'[id].errorDetails # Null
                           /\ Val(store'[id].errorDetails).message = Val(err[c])
                  /\ (pc[c] = "P_markFailed" /\ pc'[c] # "P_failCleanup")
                        => /\ pc'[c] = "P_throw"
                           /\ UNCHANGED <<store, audio, err>>
                  /\ pc[c] = "P_throw"
                        => /\ pc'[c] = "E_catch"
                           /\ UNCHANGED <<store, audio, err>>
       /\ \A id \in Ids :
            (audio[id] /\ ~audio'[id])
               => \E c \in Consumers :
                     /\ msg[c] # Null
                     /\ JobOf(c) = id
                     /\ pc[c] \in {"P_cleanup", "P_failCleanup"}
                     /\ Ran(c)]_vars

\* No speech was heard, markFailed raised, and the error has been thrown
\* on: the record is still in processing and the audio is still there.
C36_Witness ==
    \E c \in Consumers :
        /\ pc[c] = "E_catch"
        /\ err[c] = Some(ErrNoSpeech)
        /\ text[c] # Null
        /\ ~failPersisted[c]
        /\ Rec(JobOf(c)).status = "processing"
        /\ audio[JobOf(c)]

\* The messages a consumer invocation holds.
Held(c) == {msg[c][i] : i \in 1..Len(msg[c])}

\* C37: every message on the queue or held by a consumer invocation names
\* the id of a row that is in the store; a request whose insert threw has
\* left no row and no message; and no step takes a row out of the store.
C37_MessageNamesStoredRecord ==
    /\ [](\A m \in DOMAIN queue :
            (queue[m] > 0 \/ \E c \in Consumers : m \in Held(c))
               => /\ m.transcriptionId \in Ids
                  /\ IsRecord(Rec(m.transcriptionId)))
    /\ [](\A id \in Ids :
            created[id] = "insertFailed"
               => /\ ~IsRecord(Rec(id))
                  /\ \A m \in DOMAIN queue :
                        m.transcriptionId = id => queue[m] = 0)
    /\ [][\A id \in Ids : IsRecord(Rec(id)) => IsRecord(store'[id])]_vars

\* The message of a job has been delivered and is on the queue for another
\* delivery, and the row it names is in the store, in processing.
C37_Witness ==
    \E id \in Ids :
        /\ queue[RequestedMessage(id)] > 0
        /\ deliveries > 0
        /\ IsRecord(Rec(id))
        /\ Rec(id).status = "processing"

\* C38: in every reachable state a record whose status is pending has a
\* message for its id on the queue or held by a consumer invocation.
C38_PendingRecordHasQueuedWork ==
    \A id \in Ids :
        (IsRecord(Rec(id)) /\ Rec(id).status = "pending")
            => \E m \in DOMAIN queue :
                  /\ m.transcriptionId = id
                  /\ queue[m] > 0 \/ \E c \in Consumers : m \in Held(c)

\* processTranscriptionEvent is under way for c and the record it loaded
\* names a chat.
HandlingForChat(c) ==
    /\ loaded[c] # Null
    /\ Val(loaded[c]).telegramChatId # Null
    /\ pc[c] \notin {"returned", "raised"}

\* C39: in one delivery whose record names a chat, processTranscriptionEvent
\* returns only by the step that attempts the result notification, raises
\* only by the step that attempts the error notification, and attempts no
\* notification at any other step; after the result notification it
\* returns, so it never attempts both; and it comes to the result
\* notification only from a re-load that found the record completed.
C39_OneNotificationPerDelivery ==
    [][\A c \in Consumers :
         (HandlingForChat(c) /\ Ran(c))
            => LET id == JobOf(c) IN
               /\ pc'[c] = "returned"
                     => /\ pc[c] = "E_sendResult"
                        /\ resultNotes'[id] = resultNotes[id] + 1
                        /\ errorNotes' = errorNotes
               /\ pc'[c] = "raised"
                     => /\ pc[c] = "E_catch"
                        /\ errorNotes'[id] = errorNotes[id] + 1
                        /\ resultNotes' = resultNotes
               /\ pc'[c] \notin {"returned", "raised"}
                     => UNCHANGED <<resultNotes, errorNotes>>
               /\ pc[c] = "E_sendResult" => pc'[c] = "returned"
               /\ pc'[c] = "E_sendResult"
                     => /\ pc[c] = "E_reload"
                        /\ IsRecord(Rec(id))
                        /\ Rec(id).status = "completed"]_vars

\* The first delivery for a record that names a chat has raised: one error
\* notification and no result notification have been attempted.
C39_Witness ==
    \E c \in Consumers :
        /\ pc[c] = "raised"
        /\ loaded[c] # Null
        /\ Val(loaded[c]).telegramChatId # Null
        /\ deliveries = 1
        /\ errorNotes[JobOf(c)] = 1
        /\ resultNotes[JobOf(c)] = 0

\* C40: when an invocation of the handler that settles its messages itself
\* ends, by return or by throw, every message of its batch has been
\* settled exactly once in this delivery, by ack() or by retry(): the
\* handler went through the whole batch, whatever happened to a message.
C40_EveryMessageSettledOnce ==
    lpc \in {"return", "threw"}
        => \A i \in 1..Len(lbatch) : Len(settled[lbatch[i]]) = 1

====
